---------------------------- MODULE Spec2Model ----------------------------
(***************************************************************************)
(* A model of the grob (growable buffer) crate.                            *)
(*                                                                         *)
(*   Spec        one negotiation: a GrowableBuffer over an initial         *)
(*               StackBuffer, driven either by winapi_generic (generic.rs) *)
(*               or by a caller using argument / commit / grow / freeze    *)
(*               directly (lib.rs), with the heap modelled as a list of    *)
(*               allocations so that release and reuse are observable.     *)
(*   SpecPolicy  the GrowStrategy implementations (strategy.rs) applied    *)
(*               to inputs drawn from the whole (scaled) u32 range.        *)
(*                                                                         *)
(* u32 is scaled to WordBits bits: every clamp, saturation and comparison  *)
(* of the source is kept, against U32_MAX = 2^WordBits - 1.  The u64       *)
(* arithmetic of the strategies never overflows for u32 inputs, so it is   *)
(* plain integer arithmetic here.                                          *)
(***************************************************************************)
EXTENDS Integers, Sequences, FiniteSets, TLC

VARIABLES
    cfg,             \* what the caller chose: driver, grow_strategy, IT, ToResult impl
    pc,              \* position of the caller / of winapi_generic
    initial_buffer,  \* the StackBuffer: [CAPACITY, offset, final_size]
    heap,            \* every allocation made so far: [capacity, final_size, live, frees]
    active_buffer,   \* BufferStrategy.active_buffer: [kind, id]
    tries,           \* BufferStrategy.tries
    final_size,      \* GrowableBuffer.final_size
    adjusted,        \* grow's local adjusted_capacity while the switch is pending
    argument,        \* the outstanding Argument, <<>> when there is none
    outstanding,     \* number of Argument values alive
    rv,              \* what the operating system call of this attempt returned
    result,          \* the last FillBufferResult, <<>> when there is none
    last_op,         \* how the last Argument obtained was consumed
    frozen,          \* the FrozenBuffer's passive_buffer, <<>> before freeze
    view,            \* what read_buffer last returned, <<>> when never read
    calls,           \* number of operating system calls made
    finalized,       \* number of times finalize was invoked
    outcome,         \* what the driver returned, <<>> while running
    fn,              \* SpecPolicy: one application of next_capacity
    attempts,        \* winapi_generic: one record per turn of the loop
    finalize_rv,     \* what the finalize closure returned, <<>> before it ran
    discarded        \* argument() has reset a final_size that was not 0

vars == <<cfg, pc, initial_buffer, heap, active_buffer, tries, final_size, adjusted,
          argument, outstanding, rv, result, last_op, frozen, view, calls,
          finalized, outcome, fn, attempts, finalize_rv, discarded>>

---------------------------------------------------------------------------
(* Bounds of the model *)

WordBits == 10
MaxCalls == 3

U32_MAX == 2 ^ WordBits - 1

---------------------------------------------------------------------------
(* Program constants *)

ALIGNMENT == 8
SIZE_OF_WCHAR == 2
SIZE_OF_U128 == 16

NO_ERROR == 0
ERROR_INSUFFICIENT_BUFFER == 122
ERROR_BUFFER_OVERFLOW == 111
ERROR_NO_DATA == 232
ERROR_ADDRESS_NOT_ASSOCIATED == 1228

Max(a, b) == IF a >= b THEN a ELSE b
Min(a, b) == IF a <= b THEN a ELSE b

\* u32::saturating_mul
saturating_mul(a, b) == Min(a * b, U32_MAX)

---------------------------------------------------------------------------
(* traits.rs / win.rs: RawToInternal for *mut T and for PWSTR *)

\* capacity_to_size that offers the capacity in bytes as the number of WCHARs
capacity_to_size_in_bytes(IT, value) == value

capacity_to_size(IT, value) ==
    IF IT = "PWSTR" THEN value \div SIZE_OF_WCHAR ELSE value

size_to_capacity(IT, value) ==
    IF IT = "PWSTR" THEN saturating_mul(value, SIZE_OF_WCHAR) ELSE value

---------------------------------------------------------------------------
(* strategy.rs *)

\* the cast `as u32` without the preceding min: wraps instead of clamping
GrowToNearestNibbleWithExtra_wraps(A, tries_, desired_capacity) ==
    LET bumped_nibbles == (desired_capacity + A.EXTRA + 15) \div 16
        scaled_bytes == bumped_nibbles * 16 * A.SCALE
    IN  Max(Max(scaled_bytes, desired_capacity), A.FLOOR) % (U32_MAX + 1)

\* the computation without `.max(FLOOR)`
GrowToNearestNibbleWithExtra_ignores_floor(A, tries_, desired_capacity) ==
    LET bumped_nibbles == (desired_capacity + A.EXTRA + 15) \div 16
        scaled_bytes == bumped_nibbles * 16 * A.SCALE
    IN  Min(Max(scaled_bytes, desired_capacity), U32_MAX)

GrowToNearestNibbleWithExtra(A, tries_, desired_capacity) ==
    LET bumped_nibbles == (desired_capacity + A.EXTRA + 15) \div 16
        scaled_bytes == bumped_nibbles * 16 * A.SCALE
    IN  Min(Max(Max(scaled_bytes, desired_capacity), A.FLOOR), U32_MAX)

\* the rounding without the space for alignment
GrowToNearestQuarterKibi_without_alignment(tries_, desired_capacity) ==
    LET quarter_kibis == (desired_capacity + 255) \div 256
        bytes == quarter_kibis * 256
    IN  Min(bytes, U32_MAX)

\* the cast `as u32` without the preceding min: wraps instead of clamping
GrowToNearestQuarterKibi_wraps(tries_, desired_capacity) ==
    LET quarter_kibis == (desired_capacity + 255 + ALIGNMENT) \div 256
        bytes == quarter_kibis * 256
    IN  bytes % (U32_MAX + 1)

\* the rounding to the quarter kibibyte below instead of above
GrowToNearestQuarterKibi_rounds_down(tries_, desired_capacity) ==
    LET quarter_kibis == desired_capacity \div 256
        bytes == quarter_kibis * 256
    IN  Min(bytes, U32_MAX)

GrowToNearestQuarterKibi(tries_, desired_capacity) ==
    LET quarter_kibis == (desired_capacity + 255 + ALIGNMENT) \div 256
        bytes == quarter_kibis * 256
    IN  Min(bytes, U32_MAX)

\* NoAdjustments with the EXTRA of AdjustForNull
NoAdjustments_with_extra == [EXTRA |-> SIZE_OF_WCHAR, SCALE |-> 1, FLOOR |-> 0]

NoAdjustments == [EXTRA |-> 0, SCALE |-> 1, FLOOR |-> 0]
AdjustForNull == [EXTRA |-> SIZE_OF_WCHAR, SCALE |-> 1, FLOOR |-> 0]
DoublePlusNull(FLOOR) == [EXTRA |-> SIZE_OF_WCHAR, SCALE |-> 2, FLOOR |-> FLOOR]

\* the FLOOR parameters tried for GrowByDoubleWithNull<FLOOR>
Floors == {0, 64}

GrowStrategies ==
    {[name |-> "GrowToNearestNibble", A |-> NoAdjustments],
     [name |-> "GrowToNearestNibbleWithNull", A |-> AdjustForNull],
     [name |-> "GrowToNearestQuarterKibi", A |-> NoAdjustments]}
    \cup {[name |-> "GrowByDoubleWithNull", A |-> DoublePlusNull(f)] : f \in Floors}

\* FLOOR is a u64 const parameter: next_capacity is also tried with a FLOOR
\* above the u32 maximum
PolicyFloors == Floors \cup {U32_MAX + 1}

PolicyStrategies ==
    GrowStrategies
    \cup {[name |-> "GrowByDoubleWithNull", A |-> DoublePlusNull(f)] : f \in PolicyFloors}

\* traits.rs, the GrowStrategy of the trait's example: `1 << tries` unless the
\* desired capacity is larger
GrowExponentially(tries_, desired_capacity) ==
    LET guess == 2 ^ tries_
    IN  IF guess < desired_capacity THEN desired_capacity ELSE guess

\* the largest capacity GrowCapped returns
CAP == 4 * SIZE_OF_U128

\* a GrowStrategy of the caller's that never asks for more than CAP bytes
GrowCapped(tries_, desired_capacity) ==
    Min(desired_capacity, CAP)

\* the GrowStrategy implementations a caller supplies
UserStrategies ==
    {[name |-> "GrowExponentially", A |-> NoAdjustments],
     [name |-> "GrowCapped", A |-> NoAdjustments]}

\* dyn GrowStrategy :: next_capacity
next_capacity(gs, tries_, desired_capacity) ==
    CASE gs.name = "GrowToNearestQuarterKibi" ->
            GrowToNearestQuarterKibi(tries_, desired_capacity)
      [] gs.name = "GrowExponentially" -> GrowExponentially(tries_, desired_capacity)
      [] gs.name = "GrowCapped" -> GrowCapped(tries_, desired_capacity)
      [] OTHER -> GrowToNearestNibbleWithExtra(gs.A, tries_, desired_capacity)

---------------------------------------------------------------------------
(* base.rs: FillBufferResult = Result<FillBufferAction, std::io::Error>.    *)
(* needed_size is the value the NeededSize slot holds after the call;       *)
(* unreachable marks the unreachable!() of RvIsSize.                        *)

Ok(action, ns) ==
    [ok |-> TRUE, action |-> action, code |-> NO_ERROR, needed_size |-> ns,
     unreachable |-> FALSE]

\* std::io::Error::from_raw_os_error(code)
Err(code, ns) ==
    [ok |-> FALSE, action |-> "none", code |-> code, needed_size |-> ns,
     unreachable |-> FALSE]

Unreachable(ns) ==
    [ok |-> FALSE, action |-> "none", code |-> NO_ERROR, needed_size |-> ns,
     unreachable |-> TRUE]

---------------------------------------------------------------------------
(* win.rs: the two ToResult implementations *)

\* the zero test made before the match: an error with nothing needed is NoData
RvIsError_to_result_demotes_errors(self, ns) ==
    IF ns = 0 THEN Ok("NoData", ns)
    ELSE CASE self = NO_ERROR -> Ok("Commit", ns)
           [] self = ERROR_INSUFFICIENT_BUFFER -> Ok("Grow", ns)
           [] self = ERROR_BUFFER_OVERFLOW -> Ok("Grow", ns)
           [] self = ERROR_NO_DATA -> Ok("NoData", ns)
           [] OTHER -> Err(self, ns)

RvIsError_to_result(self, ns) ==
    LET rv_ == CASE self = NO_ERROR -> Ok("Commit", ns)
                 [] self = ERROR_INSUFFICIENT_BUFFER -> Ok("Grow", ns)
                 [] self = ERROR_BUFFER_OVERFLOW -> Ok("Grow", ns)
                 [] self = ERROR_NO_DATA -> Ok("NoData", ns)
                 [] OTHER -> Err(self, ns)
    IN  IF rv_.ok /\ ns = 0 THEN Ok("NoData", ns) ELSE rv_

\* the bootstrap test without `ns == 0`: every failed empty call grows
RvIsSize_to_result_always_bootstraps(count, gle, ns) ==
    IF count = 0
    THEN IF gle = NO_ERROR THEN Ok("NoData", ns)
         ELSE Ok("Grow", 1)
    ELSE IF count < ns THEN Ok("Commit", count)
    ELSE IF gle = ERROR_INSUFFICIENT_BUFFER THEN Ok("Grow", saturating_mul(count, 2))
    ELSE Unreachable(ns)

\* the full-buffer Grow that asks for the count it was given, not twice that
RvIsSize_to_result_asks_for_count(count, gle, ns) ==
    IF count = 0
    THEN IF gle = NO_ERROR THEN Ok("NoData", ns)
         ELSE IF ns = 0 THEN Ok("Grow", 1)
         ELSE Err(gle, ns)
    ELSE IF count < ns THEN Ok("Commit", count)
    ELSE IF gle = ERROR_INSUFFICIENT_BUFFER THEN Ok("Grow", count)
    ELSE Unreachable(ns)

\* the Commit branch without its set_needed_size(self.0)
RvIsSize_to_result_keeps_needed_size(count, gle, ns) ==
    IF count = 0
    THEN IF gle = NO_ERROR THEN Ok("NoData", ns)
         ELSE IF ns = 0 THEN Ok("Grow", 1)
         ELSE Err(gle, ns)
    ELSE IF count < ns THEN Ok("Commit", ns)
    ELSE IF gle = ERROR_INSUFFICIENT_BUFFER THEN Ok("Grow", saturating_mul(count, 2))
    ELSE Unreachable(ns)

\* self.0 is count, self.1 is gle (GetLastError captured when RvIsSize was made)
RvIsSize_to_result(count, gle, ns) ==
    IF count = 0
    THEN IF gle = NO_ERROR THEN Ok("NoData", ns)
         ELSE IF ns = 0 THEN Ok("Grow", 1)
         ELSE Err(gle, ns)
    ELSE IF count < ns THEN Ok("Commit", count)
    ELSE IF gle = ERROR_INSUFFICIENT_BUFFER THEN Ok("Grow", saturating_mul(count, 2))
    ELSE Unreachable(ns)

---------------------------------------------------------------------------
(* buffer.rs.  A pointer is the allocation it points into: 0 is the        *)
(* StackBuffer's region, i >= 1 is heap[i].  Option<pointer> is a sequence *)
(* of length at most one.                                                   *)

\* capacity() that does not subtract the alignment offset
StackBuffer_capacity_ignores_offset(sb) ==
    IF sb.CAPACITY >= ALIGNMENT THEN sb.CAPACITY ELSE 0

StackBuffer_capacity(sb) ==
    IF sb.CAPACITY >= ALIGNMENT THEN sb.CAPACITY - sb.offset ELSE 0

StackBuffer_write_buffer(sb) ==
    IF sb.CAPACITY >= ALIGNMENT
    THEN [pointer |-> 0, capacity |-> sb.CAPACITY - sb.offset]
    ELSE [pointer |-> 0, capacity |-> 0]

StackBuffer_read_buffer(sb) ==
    IF sb.CAPACITY >= ALIGNMENT
    THEN [pointer |-> <<0>>, size |-> sb.final_size]
    ELSE [pointer |-> <<>>, size |-> 0]

\* HeapBuffer::new that rounds the capacity up to a multiple of ALIGNMENT
HeapBuffer_new_padded(h, capacity) ==
    Append(h, [capacity |-> ((capacity + ALIGNMENT - 1) \div ALIGNMENT) * ALIGNMENT,
               final_size |-> 0, live |-> TRUE, frees |-> 0])

\* HeapBuffer::new: a fresh allocation, appended to the heap
HeapBuffer_new(h, capacity) ==
    Append(h, [capacity |-> capacity, final_size |-> 0, live |-> TRUE, frees |-> 0])

\* Drop for HeapBuffer: dealloc(self.pointer, self.layout)
HeapBuffer_drop(h, id) ==
    [h EXCEPT ![id].live = FALSE, ![id].frees = @ + 1]

\* asserted is the assert!(self.final_size > 0)
HeapBuffer_read_buffer(h, id) ==
    [pointer |-> <<id>>, size |-> h[id].final_size, asserted |-> h[id].final_size > 0]

---------------------------------------------------------------------------
(* lib.rs: ActiveBuffer, BufferStrategy, PassiveBuffer *)

\* dropping an ActiveBuffer or a PassiveBuffer drops the HeapBuffer it holds
drop_buffer(h, b) ==
    IF b.kind = "Heap" THEN HeapBuffer_drop(h, b.id) ELSE h

BufferStrategy_capacity ==
    CASE active_buffer.kind = "Heap" -> heap[active_buffer.id].capacity
      [] active_buffer.kind = "Initial" -> StackBuffer_capacity(initial_buffer)

BufferStrategy_raw_buffer ==
    CASE active_buffer.kind = "Heap" ->
            [pointer |-> active_buffer.id, capacity |-> heap[active_buffer.id].capacity]
      [] active_buffer.kind = "Initial" -> StackBuffer_write_buffer(initial_buffer)

\* EMPTY_READ_BUFFER
EmptyReadBuffer_read_buffer == [pointer |-> <<>>, size |-> 0]

\* FrozenBuffer::read_buffer over a passive buffer pb
FrozenBuffer_read_buffer(pb) ==
    CASE pb.kind = "Heap" ->
            [pointer |-> HeapBuffer_read_buffer(heap, pb.id).pointer,
             size |-> HeapBuffer_read_buffer(heap, pb.id).size]
      [] pb.kind = "Initial" -> StackBuffer_read_buffer(initial_buffer)
      [] pb.kind = "Empty" -> EmptyReadBuffer_read_buffer

---------------------------------------------------------------------------
(* The inputs of a negotiation *)

Drivers == {"winapi_generic", "caller"}
StackCapacities == {0, 4, 8, 40}
Offsets == {0, 5}
\* StackBuffer::<CAPACITY>::new() at an address offset bytes below the next
\* ALIGNMENT boundary; the offset is only looked at when CAPACITY >= ALIGNMENT
StackBuffers ==
    {sb \in [CAPACITY : StackCapacities, offset : Offsets, final_size : {0}] :
        sb.CAPACITY >= ALIGNMENT \/ sb.offset = 0}

Codes == {NO_ERROR, ERROR_INSUFFICIENT_BUFFER, ERROR_BUFFER_OVERFLOW, ERROR_NO_DATA,
          ERROR_ADDRESS_NOT_ASSOCIATED}

\* what an operating system call may report against an offered size s:
\* nothing, less than offered, all of it, more than offered, the fixed size
\* the simulated calls of tests/miri.rs report, and the largest u32
SizeSamples(s) == {0, s - 1, s, s + 1, SIZE_OF_U128, U32_MAX} \cap (0 .. U32_MAX)

\* what the caller's finalize closure may return
FinalizeResults == {[ok |-> TRUE, code |-> NO_ERROR],
                    [ok |-> FALSE, code |-> ERROR_ADDRESS_NOT_ASSOCIATED]}

Dropped == [kind |-> "Dropped", id |-> 0]
Moved == [kind |-> "Moved", id |-> 0]
PendingSwitch == [kind |-> "PendingSwitch", id |-> 0]

\* a loop that ignores what apply returned
next_pc_ignores_done(done) ==
    "idle"

\* where control goes once an Argument is consumed; done is apply's result
next_pc(done) ==
    IF cfg.driver = "winapi_generic" /\ done THEN "break" ELSE "idle"

---------------------------------------------------------------------------
(* lib.rs: GrowableBuffer *)

GrowableBuffer_new ==
    /\ active_buffer = [kind |-> "Initial", id |-> 0]
    /\ tries = 0
    /\ final_size = 0

Init ==
    /\ cfg \in [driver : Drivers, grow_strategy : GrowStrategies,
                IT : {"ptr", "PWSTR"}, to_result : {"RvIsError", "RvIsSize"}]
    /\ initial_buffer \in StackBuffers
    /\ heap = <<>>
    /\ GrowableBuffer_new
    /\ pc = "idle"
    /\ adjusted = 0
    /\ argument = <<>>
    /\ outstanding = 0
    /\ rv = <<>>
    /\ result = <<>>
    /\ last_op = [op |-> "none", size |-> 0]
    /\ frozen = <<>>
    /\ view = <<>>
    /\ calls = 0
    /\ finalized = 0
    /\ outcome = <<>>
    /\ fn = <<>>
    /\ attempts = <<>>
    /\ finalize_rv = <<>>
    /\ discarded = FALSE

\* argument() without `self.final_size = 0`
GrowableBuffer_argument_keeps_final_size ==
    /\ pc = "idle"
    /\ calls < MaxCalls
    /\ LET raw == BufferStrategy_raw_buffer
       IN  argument' = <<[pointer |-> raw.pointer,
                          size |-> capacity_to_size(cfg.IT, raw.capacity),
                          tries |-> tries + 1,
                          offered |-> capacity_to_size(cfg.IT, raw.capacity)]>>
    /\ outstanding' = outstanding + 1
    /\ rv' = <<>>
    /\ result' = <<>>
    /\ last_op' = [op |-> "none", size |-> 0]
    /\ pc' = "argument"
    /\ discarded' = (discarded \/ final_size # 0)
    /\ UNCHANGED <<cfg, initial_buffer, heap, active_buffer, tries, final_size, adjusted,
                   frozen, view, calls, finalized, outcome, fn, attempts, finalize_rv>>

GrowableBuffer_argument ==
    /\ pc = "idle"
    /\ calls < MaxCalls
    /\ final_size' = 0
    /\ LET raw == BufferStrategy_raw_buffer
       IN  argument' = <<[pointer |-> raw.pointer,
                          size |-> capacity_to_size(cfg.IT, raw.capacity),
                          tries |-> tries + 1,
                          offered |-> capacity_to_size(cfg.IT, raw.capacity)]>>
    /\ outstanding' = outstanding + 1
    /\ rv' = <<>>
    /\ result' = <<>>
    /\ last_op' = [op |-> "none", size |-> 0]
    /\ pc' = "argument"
    /\ discarded' = (discarded \/ final_size # 0)
    /\ UNCHANGED <<cfg, initial_buffer, heap, active_buffer, tries, adjusted, frozen,
                   view, calls, finalized, outcome, fn, attempts, finalize_rv>>

\* the operating system call made by the caller's closure: RvIsError calls
\* report through *argument.size(), RvIsSize calls through the return value
api_wrapper ==
    /\ pc = "argument"
    /\ \E code \in Codes, n \in SizeSamples(argument[1].size) :
          IF cfg.to_result = "RvIsError"
          THEN /\ argument' = <<[argument[1] EXCEPT !.size = n]>>
               /\ rv' = <<[code |-> code, count |-> 0, ns |-> n, call |-> calls + 1]>>
          ELSE /\ argument' = argument
               /\ rv' = <<[code |-> code, count |-> n, ns |-> argument[1].size,
                           call |-> calls + 1]>>
    /\ calls' = calls + 1
    /\ pc' = "called"
    /\ UNCHANGED <<cfg, initial_buffer, heap, active_buffer, tries, final_size, adjusted,
                   outstanding, result, last_op, frozen, view, finalized, outcome, fn,
                   attempts, finalize_rv, discarded>>

\* one turn of winapi_generic's loop, as to_result leaves it: the size offered
\* to the call, what the call reported (through the size slot for RvIsError,
\* as its return value for RvIsSize) and the classification r
Attempt(r) ==
    [offered |-> argument[1].offered,
     reported |-> IF cfg.to_result = "RvIsError" THEN rv[1].ns ELSE rv[1].count,
     action |-> IF r.ok THEN r.action ELSE IF r.unreachable THEN "unreachable" ELSE "Err"]

\* rv.to_result(&mut argument)
ToResult_to_result ==
    /\ pc = "called"
    /\ LET r == IF cfg.to_result = "RvIsError"
                THEN RvIsError_to_result(rv[1].code, argument[1].size)
                ELSE RvIsSize_to_result(rv[1].count, rv[1].code, argument[1].size)
       IN  /\ result' = <<r>>
           /\ attempts' = IF cfg.driver = "winapi_generic"
                           THEN Append(attempts, Attempt(r))
                           ELSE attempts
           /\ IF r.unreachable
              THEN /\ pc' = "panicked"
                   /\ argument' = <<>>
                   /\ outstanding' = outstanding - 1
                   /\ heap' = drop_buffer(heap, active_buffer)
                   /\ active_buffer' = Dropped
              ELSE /\ pc' = "classified"
                   /\ argument' = <<[argument[1] EXCEPT !.size = r.needed_size]>>
                   /\ UNCHANGED <<outstanding, heap, active_buffer>>
    /\ UNCHANGED <<cfg, initial_buffer, tries, final_size, adjusted, rv, last_op, frozen,
                   view, calls, finalized, outcome, fn, finalize_rv, discarded>>

\* set_final_size without `assert!(capacity <= self.capacity())`
GrowableBuffer_set_final_size_unchecked(size) ==
    /\ final_size' = size
    /\ pc' = next_pc(TRUE)
    /\ UNCHANGED <<heap, active_buffer>>

\* GrowableBufferAsParent::set_final_size, with the unwinding of a failed assert!
GrowableBuffer_set_final_size(size) ==
    IF size_to_capacity(cfg.IT, size) <= BufferStrategy_capacity
    THEN /\ final_size' = size
         /\ pc' = next_pc(TRUE)
         /\ UNCHANGED <<heap, active_buffer>>
    ELSE /\ pc' = "panicked"
         /\ heap' = drop_buffer(heap, active_buffer)
         /\ active_buffer' = Dropped
         /\ UNCHANGED final_size

\* grow that counts the attempt before it compares the capacities
BufferStrategy_grow_counts_every_call(desired_capacity) ==
    LET current_capacity == BufferStrategy_capacity
        adjusted_capacity == next_capacity(cfg.grow_strategy, tries + 1, desired_capacity)
    IN  /\ tries' = tries + 1
        /\ IF desired_capacity > current_capacity
           THEN IF adjusted_capacity > current_capacity
                THEN /\ adjusted' = adjusted_capacity
                     /\ heap' = drop_buffer(heap, active_buffer)
                     /\ active_buffer' = PendingSwitch
                     /\ pc' = "PendingSwitch"
                ELSE /\ pc' = "panicked"
                     /\ heap' = drop_buffer(heap, active_buffer)
                     /\ active_buffer' = Dropped
                     /\ UNCHANGED adjusted
           ELSE /\ pc' = next_pc(FALSE)
                /\ UNCHANGED <<adjusted, heap, active_buffer>>

\* grow that holds on to the old buffer until the new one is installed
BufferStrategy_grow_keeps_old(desired_capacity) ==
    LET current_capacity == BufferStrategy_capacity
        adjusted_capacity == next_capacity(cfg.grow_strategy, tries + 1, desired_capacity)
    IN  IF desired_capacity > current_capacity
        THEN /\ tries' = tries + 1
             /\ IF adjusted_capacity > current_capacity
                THEN /\ adjusted' = adjusted_capacity
                     /\ heap' = heap
                     /\ active_buffer' = PendingSwitch
                     /\ pc' = "PendingSwitch"
                ELSE /\ pc' = "panicked"
                     /\ heap' = drop_buffer(heap, active_buffer)
                     /\ active_buffer' = Dropped
                     /\ UNCHANGED adjusted
        ELSE /\ pc' = next_pc(FALSE)
             /\ UNCHANGED <<tries, adjusted, heap, active_buffer>>

\* grow without `assert!(adjusted_capacity > current_capacity)`
BufferStrategy_grow_unchecked(desired_capacity) ==
    LET current_capacity == BufferStrategy_capacity
        adjusted_capacity == next_capacity(cfg.grow_strategy, tries + 1, desired_capacity)
    IN  IF desired_capacity > current_capacity
        THEN /\ tries' = tries + 1
             /\ adjusted' = adjusted_capacity
             /\ heap' = drop_buffer(heap, active_buffer)
             /\ active_buffer' = PendingSwitch
             /\ pc' = "PendingSwitch"
        ELSE /\ pc' = next_pc(FALSE)
             /\ UNCHANGED <<tries, adjusted, heap, active_buffer>>

\* grow without `self.tries += 1`
BufferStrategy_grow_keeps_tries(desired_capacity) ==
    LET current_capacity == BufferStrategy_capacity
        adjusted_capacity == next_capacity(cfg.grow_strategy, tries, desired_capacity)
    IN  IF desired_capacity > current_capacity
        THEN IF adjusted_capacity > current_capacity
             THEN /\ adjusted' = adjusted_capacity
                  /\ heap' = drop_buffer(heap, active_buffer)
                  /\ active_buffer' = PendingSwitch
                  /\ pc' = "PendingSwitch"
                  /\ UNCHANGED tries
             ELSE /\ pc' = "panicked"
                  /\ heap' = drop_buffer(heap, active_buffer)
                  /\ active_buffer' = Dropped
                  /\ UNCHANGED <<tries, adjusted>>
        ELSE /\ pc' = next_pc(FALSE)
             /\ UNCHANGED <<tries, adjusted, heap, active_buffer>>

\* BufferStrategy::grow up to `self.active_buffer = ActiveBuffer::PendingSwitch`
BufferStrategy_grow(desired_capacity) ==
    LET current_capacity == BufferStrategy_capacity
        adjusted_capacity == next_capacity(cfg.grow_strategy, tries + 1, desired_capacity)
    IN  IF desired_capacity > current_capacity
        THEN /\ tries' = tries + 1
             /\ IF adjusted_capacity > current_capacity
                THEN /\ adjusted' = adjusted_capacity
                     /\ heap' = drop_buffer(heap, active_buffer)
                     /\ active_buffer' = PendingSwitch
                     /\ pc' = "PendingSwitch"
                ELSE /\ pc' = "panicked"
                     /\ heap' = drop_buffer(heap, active_buffer)
                     /\ active_buffer' = Dropped
                     /\ UNCHANGED adjusted
        ELSE /\ pc' = next_pc(FALSE)
             /\ UNCHANGED <<tries, adjusted, heap, active_buffer>>

\* grow that returns after `self.active_buffer = ActiveBuffer::PendingSwitch`
BufferStrategy_grow_install_stays_pending ==
    /\ pc = "PendingSwitch"
    /\ adjusted' = 0
    /\ pc' = next_pc(FALSE)
    /\ UNCHANGED <<cfg, initial_buffer, heap, active_buffer, tries, final_size, argument,
                   outstanding, rv, result, last_op, frozen, view, calls, finalized,
                   outcome, fn, attempts, finalize_rv, discarded>>

\* BufferStrategy::grow, `self.active_buffer = ActiveBuffer::Heap(HeapBuffer::new(..))`
BufferStrategy_grow_install ==
    /\ pc = "PendingSwitch"
    /\ heap' = HeapBuffer_new(heap, adjusted)
    /\ active_buffer' = [kind |-> "Heap", id |-> Len(heap) + 1]
    /\ adjusted' = 0
    /\ pc' = next_pc(FALSE)
    /\ UNCHANGED <<cfg, initial_buffer, tries, final_size, argument, outstanding, rv,
                   result, last_op, frozen, view, calls, finalized, outcome, fn,
                   attempts, finalize_rv, discarded>>

Argument_commit ==
    /\ argument # <<>>
    /\ GrowableBuffer_set_final_size(argument[1].size)
    /\ last_op' = [op |-> "commit", size |-> argument[1].size]
    /\ argument' = <<>>
    /\ outstanding' = outstanding - 1
    /\ rv' = <<>>
    /\ result' = <<>>
    /\ UNCHANGED <<cfg, initial_buffer, tries, adjusted, frozen, view, calls, finalized,
                   outcome, fn,
                   attempts, finalize_rv, discarded>>

\* commit_no_data written as a copy of commit
Argument_commit_no_data_keeps_size ==
    /\ argument # <<>>
    /\ GrowableBuffer_set_final_size(argument[1].size)
    /\ last_op' = [op |-> "commit_no_data", size |-> 0]
    /\ argument' = <<>>
    /\ outstanding' = outstanding - 1
    /\ rv' = <<>>
    /\ result' = <<>>
    /\ UNCHANGED <<cfg, initial_buffer, tries, adjusted, frozen, view, calls, finalized,
                   outcome, fn,
                   attempts, finalize_rv, discarded>>

Argument_commit_no_data ==
    /\ argument # <<>>
    /\ GrowableBuffer_set_final_size(0)
    /\ last_op' = [op |-> "commit_no_data", size |-> 0]
    /\ argument' = <<>>
    /\ outstanding' = outstanding - 1
    /\ rv' = <<>>
    /\ result' = <<>>
    /\ UNCHANGED <<cfg, initial_buffer, tries, adjusted, frozen, view, calls, finalized,
                   outcome, fn,
                   attempts, finalize_rv, discarded>>

\* grow taking `&mut self`: the Argument survives the switch of buffers
Argument_grow_borrows ==
    /\ argument # <<>>
    /\ BufferStrategy_grow(size_to_capacity(cfg.IT, argument[1].size))
    /\ last_op' = [op |-> "grow", size |-> argument[1].size]
    /\ UNCHANGED <<argument, outstanding>>
    /\ rv' = <<>>
    /\ result' = <<>>
    /\ UNCHANGED <<cfg, initial_buffer, final_size, frozen, view, calls, finalized,
                   outcome, fn,
                   attempts, finalize_rv, discarded>>

Argument_grow ==
    /\ argument # <<>>
    /\ BufferStrategy_grow(size_to_capacity(cfg.IT, argument[1].size))
    /\ last_op' = [op |-> "grow", size |-> argument[1].size]
    /\ argument' = <<>>
    /\ outstanding' = outstanding - 1
    /\ rv' = <<>>
    /\ result' = <<>>
    /\ UNCHANGED <<cfg, initial_buffer, final_size, frozen, view, calls, finalized,
                   outcome, fn,
                   attempts, finalize_rv, discarded>>

\* an Argument that goes out of scope without being consumed (the scope of
\* rv and of the FillBufferResult ends with it, as it does in the three
\* consuming methods)
Argument_drop ==
    /\ argument # <<>>
    /\ argument' = <<>>
    /\ outstanding' = outstanding - 1
    /\ last_op' = [op |-> "drop", size |-> 0]
    /\ pc' = "idle"
    /\ rv' = <<>>
    /\ result' = <<>>
    /\ UNCHANGED <<cfg, initial_buffer, heap, active_buffer, tries, final_size, adjusted,
                   frozen, view, calls, finalized, outcome, fn,
                   attempts, finalize_rv, discarded>>

\* Argument::apply as winapi_generic calls it
Argument_apply ==
    /\ cfg.driver = "winapi_generic"
    /\ pc = "classified"
    /\ result[1].ok
    /\ CASE result[1].action = "Commit" -> Argument_commit
         [] result[1].action = "Grow" -> Argument_grow
         [] result[1].action = "NoData" -> Argument_commit_no_data

\* an error that is dropped with the Argument, and the loop goes on
winapi_generic_try_retries ==
    /\ cfg.driver = "winapi_generic"
    /\ pc = "classified"
    /\ ~result[1].ok
    /\ argument' = <<>>
    /\ outstanding' = outstanding - 1
    /\ pc' = "idle"
    /\ UNCHANGED <<cfg, initial_buffer, heap, active_buffer, tries, final_size, adjusted,
                   rv, result, last_op, frozen, view, calls, finalized, outcome, fn,
                   attempts, finalize_rv, discarded>>

\* the `?` of winapi_generic: the error leaves the function, dropping the
\* Argument and the GrowableBuffer
winapi_generic_try ==
    /\ cfg.driver = "winapi_generic"
    /\ pc = "classified"
    /\ ~result[1].ok
    /\ outcome' = <<[ok |-> FALSE, code |-> result[1].code]>>
    /\ argument' = <<>>
    /\ outstanding' = outstanding - 1
    /\ heap' = drop_buffer(heap, active_buffer)
    /\ active_buffer' = Dropped
    /\ pc' = "returned"
    /\ UNCHANGED <<cfg, initial_buffer, tries, final_size, adjusted, rv, result, last_op,
                   frozen, view, calls, finalized, fn,
                   attempts, finalize_rv, discarded>>

\* freeze taking `&mut self`: the GrowableBuffer stays usable afterwards
GrowableBuffer_freeze_borrows ==
    /\ \/ cfg.driver = "caller" /\ pc = "idle"
       \/ pc = "break"
    /\ IF final_size > 0
       THEN /\ heap' = IF active_buffer.kind = "Heap"
                       THEN [heap EXCEPT ![active_buffer.id].final_size = final_size]
                       ELSE heap
            /\ initial_buffer' = IF active_buffer.kind = "Initial"
                                 THEN [initial_buffer EXCEPT !.final_size = final_size]
                                 ELSE initial_buffer
            /\ frozen' = <<[kind |-> active_buffer.kind, id |-> active_buffer.id]>>
       ELSE /\ frozen' = <<[kind |-> "Empty", id |-> 0]>>
            /\ UNCHANGED <<heap, initial_buffer>>
    /\ UNCHANGED <<cfg, pc, active_buffer, tries, final_size, adjusted, argument,
                   outstanding, rv, result, last_op, view, calls, finalized, outcome, fn,
                   attempts, finalize_rv, discarded>>

\* freeze that finalizes the active buffer whatever the final size is
GrowableBuffer_freeze_exposes_empty ==
    /\ \/ cfg.driver = "caller" /\ pc = "idle"
       \/ pc = "break"
    /\ IF final_size >= 0
       THEN /\ heap' = IF active_buffer.kind = "Heap"
                       THEN [heap EXCEPT ![active_buffer.id].final_size = final_size]
                       ELSE heap
            /\ initial_buffer' = IF active_buffer.kind = "Initial"
                                 THEN [initial_buffer EXCEPT !.final_size = final_size]
                                 ELSE initial_buffer
            /\ frozen' = <<[kind |-> active_buffer.kind, id |-> active_buffer.id]>>
       ELSE /\ heap' = drop_buffer(heap, active_buffer)
            /\ frozen' = <<[kind |-> "Empty", id |-> 0]>>
            /\ UNCHANGED initial_buffer
    /\ active_buffer' = Moved
    /\ pc' = "frozen"
    /\ UNCHANGED <<cfg, tries, final_size, adjusted, argument, outstanding, rv, result,
                   last_op, view, calls, finalized, outcome, fn,
                   attempts, finalize_rv, discarded>>

\* freeze whose empty view leaves the active buffer undropped
GrowableBuffer_freeze_forgets_active ==
    /\ \/ cfg.driver = "caller" /\ pc = "idle"
       \/ pc = "break"
    /\ IF final_size > 0
       THEN /\ heap' = IF active_buffer.kind = "Heap"
                       THEN [heap EXCEPT ![active_buffer.id].final_size = final_size]
                       ELSE heap
            /\ initial_buffer' = IF active_buffer.kind = "Initial"
                                 THEN [initial_buffer EXCEPT !.final_size = final_size]
                                 ELSE initial_buffer
            /\ frozen' = <<[kind |-> active_buffer.kind, id |-> active_buffer.id]>>
       ELSE /\ heap' = heap
            /\ frozen' = <<[kind |-> "Empty", id |-> 0]>>
            /\ UNCHANGED initial_buffer
    /\ active_buffer' = Moved
    /\ pc' = "frozen"
    /\ UNCHANGED <<cfg, tries, final_size, adjusted, argument, outstanding, rv, result,
                   last_op, view, calls, finalized, outcome, fn,
                   attempts, finalize_rv, discarded>>

GrowableBuffer_freeze ==
    /\ \/ cfg.driver = "caller" /\ pc = "idle"
       \/ pc = "break"
    /\ IF final_size > 0
       THEN /\ heap' = IF active_buffer.kind = "Heap"
                       THEN [heap EXCEPT ![active_buffer.id].final_size = final_size]
                       ELSE heap
            /\ initial_buffer' = IF active_buffer.kind = "Initial"
                                 THEN [initial_buffer EXCEPT !.final_size = final_size]
                                 ELSE initial_buffer
            /\ frozen' = <<[kind |-> active_buffer.kind, id |-> active_buffer.id]>>
       ELSE /\ heap' = drop_buffer(heap, active_buffer)
            /\ frozen' = <<[kind |-> "Empty", id |-> 0]>>
            /\ UNCHANGED initial_buffer
    /\ active_buffer' = Moved
    /\ pc' = "frozen"
    /\ UNCHANGED <<cfg, tries, final_size, adjusted, argument, outstanding, rv, result,
                   last_op, view, calls, finalized, outcome, fn,
                   attempts, finalize_rv, discarded>>

\* winapi_generic ending in `finalize(..); Ok(..)`: the closure's result is lost
finalize_result_is_dropped ==
    /\ cfg.driver = "winapi_generic"
    /\ pc = "frozen"
    /\ finalized' = finalized + 1
    /\ view' = <<FrozenBuffer_read_buffer(frozen[1])>>
    /\ \E r \in FinalizeResults :
          /\ finalize_rv' = <<r>>
          /\ outcome' = <<[ok |-> TRUE, code |-> NO_ERROR]>>
    /\ heap' = drop_buffer(heap, frozen[1])
    /\ frozen' = <<>>
    /\ pc' = "returned"
    /\ UNCHANGED <<cfg, initial_buffer, active_buffer, tries, final_size, adjusted,
                   argument, outstanding, rv, result, last_op, calls, fn,
                   attempts, discarded>>

\* finalize(growable_buffer.freeze()): the closure reads the buffer, the
\* FrozenBuffer is dropped when it returns, and its result is the outcome
finalize ==
    /\ cfg.driver = "winapi_generic"
    /\ pc = "frozen"
    /\ finalized' = finalized + 1
    /\ view' = <<FrozenBuffer_read_buffer(frozen[1])>>
    /\ \E r \in FinalizeResults :
          /\ finalize_rv' = <<r>>
          /\ outcome' = <<r>>
    /\ heap' = drop_buffer(heap, frozen[1])
    /\ frozen' = <<>>
    /\ pc' = "returned"
    /\ UNCHANGED <<cfg, initial_buffer, active_buffer, tries, final_size, adjusted,
                   argument, outstanding, rv, result, last_op, calls, fn,
                   attempts, discarded>>

\* a caller reading the FrozenBuffer it holds
FrozenBuffer_read ==
    /\ cfg.driver = "caller"
    /\ pc = "frozen"
    /\ view' = <<FrozenBuffer_read_buffer(frozen[1])>>
    /\ UNCHANGED <<cfg, pc, initial_buffer, heap, active_buffer, tries, final_size,
                   adjusted, argument, outstanding, rv, result, last_op, frozen, calls,
                   finalized, outcome, fn,
                   attempts, finalize_rv, discarded>>

\* the FrozenBuffer goes out of scope
FrozenBuffer_drop ==
    /\ cfg.driver = "caller"
    /\ pc = "frozen"
    /\ heap' = drop_buffer(heap, frozen[1])
    /\ frozen' = <<>>
    /\ pc' = "returned"
    /\ UNCHANGED <<cfg, initial_buffer, active_buffer, tries, final_size, adjusted,
                   argument, outstanding, rv, result, last_op, view, calls, finalized,
                   outcome, fn,
                   attempts, finalize_rv, discarded>>

\* the GrowableBuffer goes out of scope without freeze
GrowableBuffer_drop ==
    /\ cfg.driver = "caller"
    /\ pc = "idle"
    /\ heap' = drop_buffer(heap, active_buffer)
    /\ active_buffer' = Dropped
    /\ pc' = "returned"
    /\ UNCHANGED <<cfg, initial_buffer, tries, final_size, adjusted, argument,
                   outstanding, rv, result, last_op, frozen, view, calls, finalized,
                   outcome, fn,
                   attempts, finalize_rv, discarded>>

\* a caller consuming its Argument directly
Caller_commit == cfg.driver = "caller" /\ Argument_commit
Caller_commit_no_data == cfg.driver = "caller" /\ Argument_commit_no_data
Caller_grow == cfg.driver = "caller" /\ Argument_grow
Caller_drop == cfg.driver = "caller" /\ Argument_drop

Next ==
    \/ GrowableBuffer_argument
    \/ api_wrapper
    \/ ToResult_to_result
    \/ Argument_apply
    \/ winapi_generic_try
    \/ BufferStrategy_grow_install
    \/ Caller_commit
    \/ Caller_commit_no_data
    \/ Caller_grow
    \/ Caller_drop
    \/ GrowableBuffer_freeze
    \/ finalize
    \/ FrozenBuffer_read
    \/ FrozenBuffer_drop
    \/ GrowableBuffer_drop

Spec == Init /\ [][Next]_vars

---------------------------------------------------------------------------
(* SpecUser: the negotiation with a GrowStrategy supplied by the caller.     *)

InitUser ==
    /\ cfg \in [driver : Drivers, grow_strategy : UserStrategies,
                IT : {"ptr", "PWSTR"}, to_result : {"RvIsError", "RvIsSize"}]
    /\ initial_buffer \in StackBuffers
    /\ heap = <<>>
    /\ GrowableBuffer_new
    /\ pc = "idle"
    /\ adjusted = 0
    /\ argument = <<>>
    /\ outstanding = 0
    /\ rv = <<>>
    /\ result = <<>>
    /\ last_op = [op |-> "none", size |-> 0]
    /\ frozen = <<>>
    /\ view = <<>>
    /\ calls = 0
    /\ finalized = 0
    /\ outcome = <<>>
    /\ fn = <<>>
    /\ attempts = <<>>
    /\ finalize_rv = <<>>
    /\ discarded = FALSE

SpecUser == InitUser /\ [][Next]_vars

---------------------------------------------------------------------------
(* SpecStored: winapi_generic with RvIsSize and GrowByDoubleWithNull over a  *)
(* call that stores fn.N elements: it fills what it is offered and fails     *)
(* with ERROR_INSUFFICIENT_BUFFER while that is not more than fn.N.          *)

\* api_wrapper(&mut argument) of a call that returns the number of elements
\* stored
api_wrapper_stored ==
    /\ pc = "argument"
    /\ LET offered == argument[1].size
       IN  rv' = <<IF offered <= fn.N
                   THEN [code |-> ERROR_INSUFFICIENT_BUFFER, count |-> offered,
                         ns |-> offered, call |-> calls + 1]
                   ELSE [code |-> NO_ERROR, count |-> fn.N,
                         ns |-> offered, call |-> calls + 1]>>
    /\ calls' = calls + 1
    /\ pc' = "called"
    /\ UNCHANGED <<cfg, initial_buffer, heap, active_buffer, tries, final_size, adjusted,
                   argument, outstanding, result, last_op, frozen, view, finalized,
                   outcome, fn, attempts, finalize_rv, discarded>>

InitStored ==
    /\ cfg \in [driver : {"winapi_generic"},
                grow_strategy : {[name |-> "GrowByDoubleWithNull", A |-> DoublePlusNull(f)] :
                                    f \in Floors},
                IT : {"ptr", "PWSTR"}, to_result : {"RvIsSize"}]
    /\ initial_buffer \in {sb \in StackBuffers : sb.CAPACITY \in {0, 5 * ALIGNMENT}}
    /\ fn \in [N : 1 .. U32_MAX]
    /\ heap = <<>>
    /\ GrowableBuffer_new
    /\ pc = "idle"
    /\ adjusted = 0
    /\ argument = <<>>
    /\ outstanding = 0
    /\ rv = <<>>
    /\ result = <<>>
    /\ last_op = [op |-> "none", size |-> 0]
    /\ frozen = <<>>
    /\ view = <<>>
    /\ calls = 0
    /\ finalized = 0
    /\ outcome = <<>>
    /\ attempts = <<>>
    /\ finalize_rv = <<>>
    /\ discarded = FALSE

NextStored ==
    \/ GrowableBuffer_argument
    \/ api_wrapper_stored
    \/ ToResult_to_result
    \/ Argument_apply
    \/ BufferStrategy_grow_install
    \/ GrowableBuffer_freeze
    \/ finalize

SpecStored == InitStored /\ [][NextStored]_vars /\ WF_vars(NextStored)

---------------------------------------------------------------------------
(* SpecPolicy: GrowStrategy::next_capacity applied once to arbitrary inputs. *)
(* The GrowableBuffer stays as constructed.                                  *)

\* the current capacities tried against a desired capacity d
CurrentSamples(d) == {0, d - 1, d, d + 1, U32_MAX} \cap (0 .. U32_MAX)

InitPolicy ==
    /\ \E gs \in PolicyStrategies, t \in 1 .. MaxCalls, d \in 0 .. U32_MAX :
          \E c \in CurrentSamples(d) :
             fn = [gs |-> gs, tries |-> t, current |-> c, desired |-> d,
                   out |-> 0, done |-> FALSE]
    /\ cfg = [driver |-> "caller", grow_strategy |-> fn.gs, IT |-> "ptr",
              to_result |-> "RvIsError"]
    /\ initial_buffer = [CAPACITY |-> 0, offset |-> 0, final_size |-> 0]
    /\ heap = <<>>
    /\ GrowableBuffer_new
    /\ pc = "idle"
    /\ adjusted = 0
    /\ argument = <<>>
    /\ outstanding = 0
    /\ rv = <<>>
    /\ result = <<>>
    /\ last_op = [op |-> "none", size |-> 0]
    /\ frozen = <<>>
    /\ view = <<>>
    /\ calls = 0
    /\ finalized = 0
    /\ outcome = <<>>
    /\ attempts = <<>>
    /\ finalize_rv = <<>>
    /\ discarded = FALSE

PolicyApply ==
    /\ ~fn.done
    /\ fn' = [fn EXCEPT !.out = next_capacity(fn.gs, fn.tries, fn.desired),
                        !.done = TRUE]
    /\ UNCHANGED <<cfg, pc, initial_buffer, heap, active_buffer, tries, final_size,
                   adjusted, argument, outstanding, rv, result, last_op, frozen, view,
                   calls, finalized, outcome, attempts, finalize_rv, discarded>>

NextPolicy == PolicyApply

SpecPolicy == InitPolicy /\ [][NextPolicy]_vars

---------------------------------------------------------------------------
(* SpecPure: the functions that do not touch a GrowableBuffer, applied once *)
(* to arbitrary inputs: FrozenBuffer<u16>::to_os_string, WindowsString::new *)
(* with as_wide, and StackBuffer's capacity and write_buffer at a base      *)
(* address.  An Option is a sequence of length at most one; an OsString is  *)
(* held as the UTF-16 units OsString::from_wide was given, which            *)
(* encode_wide gives back.                                                  *)

\* the longest buffer content and the longest string tried, in elements
MaxLen == 3

RECURSIVE SeqsUpTo(_, _)
\* the sequences over S of length at most n
SeqsUpTo(S, n) ==
    IF n = 0 THEN {<<>>}
    ELSE SeqsUpTo(S, n - 1)
         \cup {Append(q, x) : q \in {r \in SeqsUpTo(S, n - 1) : Len(r) = n - 1}, x \in S}

\* the u16 values tried as buffer content: NUL, 'a', 'z'
WideSamples == {0, 97, 122}

RECURSIVE TrimNuls(_)
\* v without its trailing NULs
TrimNuls(v) ==
    IF v # <<>> /\ v[Len(v)] = 0 THEN TrimNuls(SubSeq(v, 1, Len(v) - 1)) ELSE v

\* to_os_string that removes every trailing NUL
FrozenBuffer_to_os_string_trims_all(rb, memory) ==
    IF rb.size = 0 \/ rb.pointer = <<>> THEN <<>>
    ELSE <<TrimNuls(SubSeq(memory, 1, rb.size))>>

\* win.rs: FrozenBuffer<u16>::to_os_string over the result rb of read_buffer
\* and the elements the pointer points to
FrozenBuffer_to_os_string(rb, memory) ==
    IF rb.size = 0 THEN <<>>
    ELSE IF rb.pointer # <<>>
         THEN LET v == SubSeq(memory, 1, rb.size)
                  last == IF v[Len(v)] = 0 THEN rb.size - 1 ELSE rb.size
              IN  <<SubSeq(v, 1, last)>>
         ELSE <<>>

\* win.rs: FrozenBuffer<u16>::to_string, as far as the OsString goes
FrozenBuffer_to_string(rb, memory) ==
    LET o == FrozenBuffer_to_os_string(rb, memory)
    IN  IF o # <<>> THEN o[1] ELSE <<>>

\* generic.rs: winapi_path_buf's finalize, to_path_buf().unwrap_or_default()
FrozenBuffer_to_path_buf_or_default(rb, memory) ==
    LET o == FrozenBuffer_to_os_string(rb, memory)
    IN  IF o # <<>> THEN o[1] ELSE <<>>

\* the results of read_buffer tried with a buffer holding memory: nothing
\* stored, a prefix stored, all stored
ReadBufferSamples(memory) ==
    {[pointer |-> <<0>>, size |-> s] : s \in 0 .. Len(memory)}
    \cup {[pointer |-> <<>>, size |-> 0]}

\* the characters a string is made of: its length in the bytes of the OsStr
\* and its UTF-16 encoding.  NUL, 'a', an unpaired surrogate (U+D800) and
\* U+1F648 (0xD83D 0xDE48)
CharSamples ==
    {[utf8 |-> 1, wide |-> <<0>>],
     [utf8 |-> 1, wide |-> <<97>>],
     [utf8 |-> 3, wide |-> <<55296>>],
     [utf8 |-> 4, wide |-> <<55357, 56904>>]}

RECURSIVE OsStr_len(_)
\* OsStr::len: the length of the string in bytes
OsStr_len(s) == IF s = <<>> THEN 0 ELSE s[1].utf8 + OsStr_len(Tail(s))

RECURSIVE encode_wide(_)
\* OsStrExt::encode_wide
encode_wide(s) == IF s = <<>> THEN <<>> ELSE s[1].wide \o encode_wide(Tail(s))

RECURSIVE store(_, _, _, _)
\* the `for _ in 0..slots` loop of use_heap and use_stack, from its i-th turn,
\* with the elements written so far
store(encoder, slots, i, written) ==
    IF i = slots THEN [err |-> FALSE, finished |-> FALSE, written |-> written]
    ELSE IF i < Len(encoder)
         THEN IF encoder[i + 1] = 0
              THEN [err |-> TRUE, finished |-> FALSE, written |-> written]
              ELSE store(encoder, slots, i + 1, Append(written, encoder[i + 1]))
         ELSE [err |-> FALSE, finished |-> TRUE, written |-> Append(written, 0)]

RECURSIVE WindowsString_use_heap(_, _, _)
\* WindowsString::use_heap from a turn of its loop; Vec::with_capacity is
\* taken to allocate exactly the capacity asked for
WindowsString_use_heap(self, s, capacity) ==
    LET r == store(encode_wide(s), capacity, 0, <<>>)
    IN  IF r.err THEN [self EXCEPT !.ok = FALSE]
        ELSE IF r.finished THEN [self EXCEPT !.heap = <<r.written>>]
        ELSE WindowsString_use_heap(self, s, capacity * 2)

\* WindowsString::use_stack
WindowsString_use_stack(self, s, STACK_BUFFER_SIZE) ==
    LET r == store(encode_wide(s), STACK_BUFFER_SIZE, 0, <<>>)
    IN  IF r.err THEN [self EXCEPT !.ok = FALSE, !.stack = r.written]
        ELSE IF ~r.finished
             THEN WindowsString_use_heap([self EXCEPT !.stack = r.written], s,
                                         OsStr_len(s) + 1)
             ELSE [self EXCEPT !.stack = r.written]

\* convert_and_store that forgets the terminator when choosing the stack
WindowsString_convert_and_store_without_terminator(self, s, STACK_BUFFER_SIZE) ==
    IF OsStr_len(s) > STACK_BUFFER_SIZE
    THEN WindowsString_use_heap(self, s, OsStr_len(s) + 1)
    ELSE WindowsString_use_stack(self, s, STACK_BUFFER_SIZE)

\* WindowsString::convert_and_store
WindowsString_convert_and_store(self, s, STACK_BUFFER_SIZE) ==
    IF OsStr_len(s) + 1 > STACK_BUFFER_SIZE
    THEN WindowsString_use_heap(self, s, OsStr_len(s) + 1)
    ELSE WindowsString_use_stack(self, s, STACK_BUFFER_SIZE)

\* WindowsString::new: ok is FALSE for Err(no_nuls()); stack holds the
\* elements of the uninitialized array that were written
WindowsString_new(s, STACK_BUFFER_SIZE) ==
    WindowsString_convert_and_store([ok |-> TRUE, heap |-> <<>>, stack |-> <<>>],
                                    s, STACK_BUFFER_SIZE)

\* as_wide that points to the stack array whatever was stored
WindowsString_as_wide_of_stack(self) == self.stack

\* WindowsString::as_wide: the elements the returned pointer points to
WindowsString_as_wide(self) ==
    IF self.heap # <<>> THEN self.heap[1] ELSE self.stack

\* the STACK_BUFFER_SIZE parameters tried: 0 up to one more than the longest
\* string needs
StackBufferSizes == 0 .. (4 * MaxLen + 2)

\* pointer::align_offset for a pointer to u8, at run time
align_offset(p, align) == (align - (p % align)) % align

\* the addresses tried for the array of a StackBuffer
BaseAddresses == (4 * ALIGNMENT) .. (6 * ALIGNMENT - 1)

\* the CAPACITY parameters tried at each address
ProbeCapacities == 0 .. (5 * ALIGNMENT)

\* StackBuffer::as_mut_ptr, for the array at address base
StackBuffer_as_mut_ptr(base) ==
    LET offset == align_offset(base, ALIGNMENT)
    IN  [p |-> base + offset, offset |-> offset]

\* StackBuffer::write_buffer with the address it returns, for the array at
\* address base
StackBuffer_write_buffer_at(sb, base) ==
    IF sb.CAPACITY >= ALIGNMENT
    THEN [pointer |-> StackBuffer_as_mut_ptr(base).p,
          capacity |-> sb.CAPACITY - StackBuffer_as_mut_ptr(base).offset]
    ELSE [pointer |-> base, capacity |-> 0]

\* StackBuffer::<CAPACITY>::new() placed at address base
StackBuffer_new_at(CAPACITY, base) ==
    [CAPACITY |-> CAPACITY, offset |-> align_offset(base, ALIGNMENT), final_size |-> 0]

InitPure ==
    /\ \/ \E memory \in SeqsUpTo(WideSamples, MaxLen) :
             \E rb \in ReadBufferSamples(memory) :
                fn = [op |-> "to_os_string", arg |-> [rb |-> rb, memory |-> memory],
                      out |-> <<>>, done |-> FALSE]
       \/ \E s \in SeqsUpTo(CharSamples, MaxLen), N \in StackBufferSizes :
             fn = [op |-> "WindowsString_new", arg |-> [s |-> s, N |-> N],
                   out |-> <<>>, done |-> FALSE]
       \/ \E C \in ProbeCapacities, base \in BaseAddresses :
             fn = [op |-> "StackBuffer", arg |-> [CAPACITY |-> C, base |-> base],
                   out |-> <<>>, done |-> FALSE]
    /\ cfg = [driver |-> "caller", grow_strategy |-> CHOOSE gs \in GrowStrategies : TRUE,
              IT |-> "ptr", to_result |-> "RvIsError"]
    /\ initial_buffer = [CAPACITY |-> 0, offset |-> 0, final_size |-> 0]
    /\ heap = <<>>
    /\ GrowableBuffer_new
    /\ pc = "idle"
    /\ adjusted = 0
    /\ argument = <<>>
    /\ outstanding = 0
    /\ rv = <<>>
    /\ result = <<>>
    /\ last_op = [op |-> "none", size |-> 0]
    /\ frozen = <<>>
    /\ view = <<>>
    /\ calls = 0
    /\ finalized = 0
    /\ outcome = <<>>
    /\ attempts = <<>>
    /\ finalize_rv = <<>>
    /\ discarded = FALSE

PureUnchanged ==
    UNCHANGED <<cfg, pc, initial_buffer, heap, active_buffer, tries, final_size,
                adjusted, argument, outstanding, rv, result, last_op, frozen, view,
                calls, finalized, outcome, attempts, finalize_rv, discarded>>

\* to_os_string, to_string and to_path_buf of one FrozenBuffer<u16>
FrozenBuffer_convert ==
    /\ ~fn.done
    /\ fn.op = "to_os_string"
    /\ fn' = [fn EXCEPT
                !.out = [to_os_string |->
                            FrozenBuffer_to_os_string(fn.arg.rb, fn.arg.memory),
                         to_string |->
                            FrozenBuffer_to_string(fn.arg.rb, fn.arg.memory),
                         to_path_buf |->
                            FrozenBuffer_to_path_buf_or_default(fn.arg.rb, fn.arg.memory)],
                !.done = TRUE]
    /\ PureUnchanged

\* WindowsString::<N>::new(s), then as_wide when it succeeded
WindowsString_convert ==
    /\ ~fn.done
    /\ fn.op = "WindowsString_new"
    /\ LET ws == WindowsString_new(fn.arg.s, fn.arg.N)
       IN  fn' = [fn EXCEPT
                    !.out = [ws |-> ws,
                             as_wide |-> IF ws.ok THEN <<WindowsString_as_wide(ws)>>
                                         ELSE <<>>],
                    !.done = TRUE]
    /\ PureUnchanged

\* capacity() and write_buffer() of a StackBuffer at a base address
StackBuffer_probe ==
    /\ ~fn.done
    /\ fn.op = "StackBuffer"
    /\ LET sb == StackBuffer_new_at(fn.arg.CAPACITY, fn.arg.base)
       IN  fn' = [fn EXCEPT
                    !.out = [capacity |-> StackBuffer_capacity(sb),
                             write_buffer |-> StackBuffer_write_buffer_at(sb, fn.arg.base)],
                    !.done = TRUE]
    /\ PureUnchanged

NextPure ==
    \/ FrozenBuffer_convert
    \/ WindowsString_convert
    \/ StackBuffer_probe

SpecPure == InitPure /\ [][NextPure]_vars

---------------------------------------------------------------------------
(* Properties *)

LiveAllocations == {i \in 1 .. Len(heap) : heap[i].live}

Classified(impl) == pc = "classified" /\ cfg.to_result = impl

\* C1: in winapi_generic, once to_result has returned an error the function
\* returns that error: it is at the `?` or has returned Err with the raw code
\* of the failed call, the failed call is the last one made, and finalize
\* has not been invoked.
C1_TerminalErrorReturnsImmediately ==
    (cfg.driver = "winapi_generic" /\ result # <<>> /\ ~result[1].ok
        /\ ~result[1].unreachable) =>
        /\ pc \in {"classified", "returned"}
        /\ calls = rv[1].call
        /\ finalized = 0
        /\ frozen = <<>>
        /\ view = <<>>
        /\ result[1].code = rv[1].code
        /\ pc = "returned" => outcome = <<[ok |-> FALSE, code |-> rv[1].code]>>

\* C1 happens: winapi_generic returned the error of its second call
C1_Witness ==
    /\ cfg.driver = "winapi_generic"
    /\ pc = "returned"
    /\ calls = 2
    /\ finalized = 0
    /\ outcome = <<[ok |-> FALSE, code |-> ERROR_ADDRESS_NOT_ASSOCIATED]>>

\* C2: a FrozenBuffer obtained by freeze right after commit of size S reads
\* back exactly S elements, with a pointer if and only if S > 0.
C2_CommitFreezeRoundTrip ==
    (pc = "frozen" /\ last_op.op = "commit") =>
        /\ FrozenBuffer_read_buffer(frozen[1]).size = last_op.size
        /\ FrozenBuffer_read_buffer(frozen[1]).pointer # <<>> <=> last_op.size > 0
        /\ frozen[1].kind = "Heap" => HeapBuffer_read_buffer(heap, frozen[1].id).asserted

\* C2 happens: a heap buffer committed to its full capacity was frozen
C2_Witness ==
    /\ pc = "frozen"
    /\ last_op.op = "commit"
    /\ frozen[1].kind = "Heap"
    /\ last_op.size > 0
    /\ size_to_capacity(cfg.IT, last_op.size) = heap[frozen[1].id].capacity

\* C3: a FrozenBuffer obtained by freeze right after commit_no_data is empty:
\* size 0 and no pointer, whichever buffer was active.
C3_NoDataFreezesEmpty ==
    (pc = "frozen" /\ last_op.op = "commit_no_data") =>
        FrozenBuffer_read_buffer(frozen[1]) = [pointer |-> <<>>, size |-> 0]

\* C3 happens: commit_no_data was frozen while a heap buffer was active
C3_Witness ==
    /\ pc = "frozen"
    /\ last_op.op = "commit_no_data"
    /\ heap # <<>>
    /\ heap[Len(heap)].capacity > 0
    /\ calls >= 2

\* C4: there is at most one Argument, and while there is one the
\* GrowableBuffer is neither frozen nor switching buffers, and the pointer and
\* the size handed out are those of the active buffer, which is allocated.
C4_OneArgumentSameLiveBuffer ==
    /\ outstanding <= 1
    /\ outstanding = Len(argument)
    /\ argument # <<>> =>
          /\ active_buffer.kind \in {"Initial", "Heap"}
          /\ frozen = <<>>
          /\ argument[1].pointer = BufferStrategy_raw_buffer.pointer
          /\ argument[1].offered
                = capacity_to_size(cfg.IT, BufferStrategy_raw_buffer.capacity)
          /\ active_buffer.kind = "Heap" => heap[active_buffer.id].live

\* C4 happens: an Argument over a heap buffer is outstanding after the call
C4_Witness ==
    /\ argument # <<>>
    /\ pc = "classified"
    /\ active_buffer.kind = "Heap"
    /\ argument[1].pointer = active_buffer.id

\* C5: at most one heap allocation is live at any instant, and none while
\* grow is between releasing the old buffer and allocating the new one.
C5_AtMostOneLiveAllocation ==
    /\ Cardinality(LiveAllocations) <= 1
    /\ pc = "PendingSwitch" => LiveAllocations = {}

\* C5 happens: grow has released a heap buffer and not yet allocated the next
C5_Witness ==
    /\ pc = "PendingSwitch"
    /\ heap # <<>>
    /\ adjusted > heap[Len(heap)].capacity

\* C6: no allocation is released twice, an allocation is live exactly until
\* it is released, a live allocation is owned by the active buffer or by the
\* FrozenBuffer, and none is live once the negotiation is over.
C6_EveryAllocationReleasedOnce ==
    /\ \A i \in 1 .. Len(heap) :
          /\ heap[i].frees <= 1
          /\ heap[i].live <=> heap[i].frees = 0
          /\ heap[i].live =>
                \/ active_buffer = [kind |-> "Heap", id |-> i]
                \/ frozen = <<[kind |-> "Heap", id |-> i]>>
    /\ pc \in {"returned", "panicked"} => LiveAllocations = {}

\* C6 happens: a negotiation that allocated twice ended in a terminal error
C6_Witness ==
    /\ pc = "returned"
    /\ outcome # <<>>
    /\ ~outcome[1].ok
    /\ finalized = 0
    /\ Len(heap) = 2
    /\ \A i \in 1 .. Len(heap) : heap[i].frees = 1

\* C7 as claimed: next_capacity returns more than the current capacity, for
\* every current and every desired capacity.
C7_AboveCurrent_AsClaimed ==
    fn.done => fn.out > fn.current

\* C7: next_capacity returns more than the current capacity whenever the
\* desired capacity is greater than the current capacity.
C7_AboveCurrentWhenDesiredIsAbove ==
    (fn.done /\ fn.desired > fn.current) => fn.out > fn.current

\* C7 happens: a policy applied to a desired capacity above the current one,
\* close enough to the maximum to be clamped
C7_Witness ==
    /\ fn.done
    /\ fn.desired > fn.current
    /\ fn.desired < U32_MAX
    /\ fn.out = U32_MAX

\* C8 as claimed: RvIsError classifies ERROR_INSUFFICIENT_BUFFER and
\* ERROR_BUFFER_OVERFLOW as Grow, whatever the needed size is.
C8_InsufficientBufferIsGrow ==
    (Classified("RvIsError")
        /\ rv[1].code \in {ERROR_INSUFFICIENT_BUFFER, ERROR_BUFFER_OVERFLOW}) =>
        result[1].ok /\ result[1].action = "Grow"

C10_ZeroCountNonZeroSize ==
    (Classified("RvIsSize") /\ rv[1].count = 0 /\ rv[1].ns # 0) =>
        /\ rv[1].code = NO_ERROR => result[1].ok /\ result[1].action = "NoData"
        /\ rv[1].code # NO_ERROR => ~result[1].ok /\ result[1].code = rv[1].code
        /\ argument[1].size = rv[1].ns

\* C10 happens: nothing stored in a non-empty buffer, with a failure status
C10_Witness ==
    /\ Classified("RvIsSize")
    /\ rv[1].count = 0
    /\ rv[1].ns # 0
    /\ rv[1].code = ERROR_INSUFFICIENT_BUFFER
    /\ ~result[1].ok

\* the turn of the loop made last
LastAttempt == attempts[Len(attempts)]

\* the negotiation is winapi_generic's, with the classifier impl, and has
\* made at least one turn
Looping(impl) ==
    cfg.driver = "winapi_generic" /\ cfg.to_result = impl /\ attempts # <<>>

\* C11 as claimed: RvIsSize classifies a count of 0 against an offered size of
\* 0 as Grow, with a needed size that is not 0, whatever the captured status.
C11_ZeroCapacityBootstraps ==
    (Classified("RvIsSize") /\ rv[1].count = 0 /\ rv[1].ns = 0) =>
        /\ result[1].ok
        /\ result[1].action = "Grow"
        /\ argument[1].size # 0

\* C12: RvIsSize classifies a count c with 0 < c < needed size as Commit and
\* sets the needed size to c; applying the Commit does not panic, the final
\* size is c, and the FrozenBuffer read afterwards has size c.
C12_SmallerCountCommits ==
    /\ (Classified("RvIsSize") /\ 0 < rv[1].count /\ rv[1].count < rv[1].ns) =>
          /\ result[1] = Ok("Commit", rv[1].count)
          /\ argument[1].size = rv[1].count
    /\ (Looping("RvIsSize") /\ LastAttempt.action = "Commit") =>
          /\ 0 < LastAttempt.reported
          /\ LastAttempt.reported < LastAttempt.offered
          /\ pc \in {"classified", "break", "frozen", "returned"}
          /\ pc \in {"break", "frozen"} => final_size = LastAttempt.reported
          /\ pc = "frozen" =>
                FrozenBuffer_read_buffer(frozen[1]).size = LastAttempt.reported
          /\ pc = "returned" => view[1].size = LastAttempt.reported

\* C12 happens: after a Grow, a count below the size of the heap buffer was
\* committed and frozen
C12_Witness ==
    /\ Looping("RvIsSize")
    /\ pc = "frozen"
    /\ LastAttempt.action = "Commit"
    /\ frozen[1].kind = "Heap"
    /\ Len(attempts) = 2
    /\ FrozenBuffer_read_buffer(frozen[1]).size = LastAttempt.reported

\* C13 as claimed: for a count that is not 0, RvIsSize returns Grow exactly
\* when the count equals the offered size and the status is
\* ERROR_INSUFFICIENT_BUFFER, and the needed size is then twice the count,
\* saturated; a count above the offered size is not Grow.
C13_GrowExactlyWhenFull ==
    (Classified("RvIsSize") /\ rv[1].count # 0) =>
        /\ (result[1].ok /\ result[1].action = "Grow")
              <=> (rv[1].count = rv[1].ns /\ rv[1].code = ERROR_INSUFFICIENT_BUFFER)
        /\ (result[1].ok /\ result[1].action = "Grow") =>
              argument[1].size = saturating_mul(rv[1].count, 2)

\* C14 as claimed: RvIsSize aborts on a count that is not 0 and is either
\* above the offered size, or equal to it with a status other than
\* ERROR_INSUFFICIENT_BUFFER; it yields neither an action nor an error.
C14_OtherCombinationsAbort ==
    (cfg.to_result = "RvIsSize" /\ rv # <<>> /\ result # <<>> /\ rv[1].count # 0
        /\ (\/ rv[1].count > rv[1].ns
            \/ rv[1].count = rv[1].ns /\ rv[1].code # ERROR_INSUFFICIENT_BUFFER)) =>
        /\ result[1].unreachable
        /\ pc = "panicked"

\* the first turn reported a full buffer and was classified as Grow, which
\* RvIsSize does for the status ERROR_INSUFFICIENT_BUFFER only
FullThenGrow ==
    /\ Looping("RvIsSize")
    /\ attempts[1].reported = attempts[1].offered
    /\ attempts[1].reported # 0
    /\ attempts[1].action = "Grow"

\* C15: when the first call fills the buffer with ERROR_INSUFFICIENT_BUFFER,
\* the second call is offered more than the first; when the second call then
\* stores less than it was offered and is classified as Commit or NoData,
\* there is no third call, nothing panics, and the FrozenBuffer has the size
\* the second call reported.
C15_FullThenSmaller ==
    /\ (FullThenGrow /\ Len(attempts) = 1 /\ pc \in {"argument", "called"}) =>
          argument[1].offered > attempts[1].offered
    /\ (FullThenGrow /\ Len(attempts) >= 2
           /\ attempts[2].reported < attempts[2].offered
           /\ attempts[2].action \in {"Commit", "NoData"}) =>
          /\ Len(attempts) = 2
          /\ calls = 2
          /\ attempts[2].offered > attempts[1].offered
          /\ pc \in {"classified", "break", "frozen", "returned"}
          /\ pc = "break" => final_size = attempts[2].reported
          /\ pc = "frozen" =>
                FrozenBuffer_read_buffer(frozen[1]).size = attempts[2].reported
          /\ pc = "returned" => view[1].size = attempts[2].reported

\* C15 happens: a full stack buffer, then a heap buffer with one element less
\* than offered, frozen
C15_Witness ==
    /\ FullThenGrow
    /\ Len(attempts) = 2
    /\ attempts[2].action = "Commit"
    /\ attempts[2].reported = attempts[2].offered - 1
    /\ pc = "frozen"
    /\ frozen[1].kind = "Heap"
    /\ FrozenBuffer_read_buffer(frozen[1]).size = attempts[2].reported

\* every call so far wrote the needed size N into the size slot and was
\* classified as Grow when offered less than N and as Commit otherwise, which
\* RvIsError does for insufficient-buffer/overflow and for success
ExactSize(N) ==
    /\ Looping("RvIsError")
    /\ N >= 1
    /\ \A i \in 1 .. Len(attempts) :
          /\ attempts[i].reported = N
          /\ attempts[i].offered < N => attempts[i].action = "Grow"
          /\ attempts[i].offered >= N => attempts[i].action = "Commit"

\* C16 as claimed: a call that always needs N >= 1 is attempted at most
\* twice, exactly twice when the initial size is below N, and the negotiation
\* ends with a capacity of at least N and a final size of N.
C16_ExactSizeTwoAttempts ==
    (attempts # <<>> /\ ExactSize(attempts[1].reported)) =>
        LET N == attempts[1].reported
        IN  /\ Len(attempts) <= 2
            /\ pc # "panicked"
            /\ pc \in {"break", "frozen", "returned"} =>
                  /\ calls = IF attempts[1].offered < N THEN 2 ELSE 1
                  /\ LastAttempt.offered >= N
            /\ pc = "break" => final_size = N
            /\ pc = "frozen" => FrozenBuffer_read_buffer(frozen[1]).size = N

\* C17: once freeze has run the GrowableBuffer is gone for good: no Argument
\* exists or is handed out, no call, commit or grow happens, freeze does not
\* run again, and the FrozenBuffer reads the same (pointer, size) for as long
\* as it exists.
C17_FreezeConsumesViewStable ==
    /\ [](frozen # <<>> =>
            /\ pc = "frozen"
            /\ active_buffer = Moved
            /\ argument = <<>>
            /\ outstanding = 0
            /\ view # <<>> => view[1] = FrozenBuffer_read_buffer(frozen[1]))
    /\ [][/\ (frozen = <<>> /\ frozen' # <<>>) =>
                (active_buffer # Moved /\ active_buffer' = Moved)
          /\ active_buffer = Moved =>
                /\ active_buffer' = Moved
                /\ argument' = <<>>
                /\ calls' = calls
                /\ tries' = tries
                /\ final_size' = final_size
                /\ last_op' = last_op
          /\ (frozen # <<>> /\ frozen' # <<>>) =>
                /\ frozen' = frozen
                /\ FrozenBuffer_read_buffer(frozen[1])'
                      = FrozenBuffer_read_buffer(frozen[1])]_vars

\* C17 happens: a caller has read a frozen heap buffer that holds data
C17_Witness ==
    /\ cfg.driver = "caller"
    /\ pc = "frozen"
    /\ frozen[1].kind = "Heap"
    /\ view # <<>>
    /\ view[1].size > 0
    /\ view[1].pointer = <<frozen[1].id>>

\* C18: winapi_generic invokes finalize at most once; it has invoked it
\* exactly when it returned after a last turn classified as Commit or NoData,
\* after every call was made and the last Argument was consumed by that
\* action, and then returns what finalize returned; when it returns
\* otherwise, the last turn was an error and that error is what it returns.
C18_FinalizeOnceResultReturned ==
    cfg.driver = "winapi_generic" =>
        /\ finalized <= 1
        /\ finalized = 1 <=> finalize_rv # <<>>
        /\ finalized = 1 =>
              /\ pc = "returned"
              /\ attempts # <<>>
              /\ LastAttempt.action \in {"Commit", "NoData"}
              /\ calls = Len(attempts)
              /\ argument = <<>>
              /\ last_op.op \in {"commit", "commit_no_data"}
              /\ outcome = finalize_rv
        /\ pc \in {"break", "frozen"} =>
              /\ finalized = 0
              /\ LastAttempt.action \in {"Commit", "NoData"}
        /\ pc = "returned" =>
              /\ attempts # <<>>
              /\ LastAttempt.action \in {"Commit", "NoData"} => finalized = 1
              /\ LastAttempt.action \notin {"Commit", "NoData"} =>
                    /\ finalized = 0
                    /\ LastAttempt.action = "Err"
                    /\ outcome = <<[ok |-> FALSE, code |-> result[1].code]>>

\* C18 happens: after a Grow and a Commit, finalize failed and its error was
\* returned
C18_Witness ==
    /\ cfg.driver = "winapi_generic"
    /\ pc = "returned"
    /\ finalized = 1
    /\ Len(attempts) = 2
    /\ LastAttempt.action = "Commit"
    /\ finalize_rv = <<[ok |-> FALSE, code |-> ERROR_ADDRESS_NOT_ASSOCIATED]>>
    /\ outcome = finalize_rv

\* the turns of the loop classified as Grow
Grows == {i \in 1 .. Len(attempts) : attempts[i].action = "Grow"}

\* C19: in winapi_generic every turn but the last was a Grow; after a Grow
\* the loop goes on, after a Commit or a NoData no further call is made; once
\* the loop has ended the number of calls is the number of Grows plus one; and
\* a first call classified as NoData, as RvIsError does for ERROR_NO_DATA, is
\* the only call and leaves an empty FrozenBuffer.
C19_LoopEndsOnCommitOrNoData ==
    /\ (cfg.driver = "winapi_generic" /\ attempts # <<>>) =>
          /\ \A i \in 1 .. Len(attempts) - 1 : attempts[i].action = "Grow"
          /\ LastAttempt.action = "Grow" =>
                pc \in {"classified", "PendingSwitch", "idle", "argument", "called"}
          /\ LastAttempt.action \in {"Commit", "NoData"} =>
                /\ pc \in {"classified", "break", "frozen", "returned", "panicked"}
                /\ calls = Len(attempts)
          /\ pc \in {"break", "frozen", "returned"} =>
                /\ LastAttempt.action # "Grow"
                /\ calls = Cardinality(Grows) + 1
          /\ (attempts[1].action = "NoData" /\ pc # "classified") =>
                /\ calls = 1
                /\ final_size = 0
                /\ pc \in {"break", "frozen", "returned"}
                /\ pc = "frozen" =>
                      FrozenBuffer_read_buffer(frozen[1]) = [pointer |-> <<>>, size |-> 0]
                /\ pc = "returned" => view[1] = [pointer |-> <<>>, size |-> 0]
    /\ (Classified("RvIsError") /\ rv[1].code = ERROR_NO_DATA) =>
          result[1].ok /\ result[1].action = "NoData"

\* C19 happens: two Grows and a Commit, three calls, and the loop has ended
C19_Witness ==
    /\ cfg.driver = "winapi_generic"
    /\ pc = "frozen"
    /\ calls = 3
    /\ Cardinality(Grows) = 2
    /\ LastAttempt.action = "Commit"

\* C20: freeze is possible whenever no Argument is outstanding, and unless
\* the last Argument obtained was consumed by a commit of a size that is not 0
\* the FrozenBuffer is the empty one: no pointer, size 0.  An Argument that is
\* outstanding has reset the final size.
C20_FreezeIsEmptyUnlessCommitted ==
    /\ argument # <<>> => final_size = 0
    /\ final_size # 0 => last_op = [op |-> "commit", size |-> final_size]
    /\ (pc = "frozen" /\ ~(last_op.op = "commit" /\ last_op.size > 0)) =>
          /\ frozen[1].kind = "Empty"
          /\ FrozenBuffer_read_buffer(frozen[1]) = [pointer |-> <<>>, size |-> 0]

\* C20 happens: a commit of data into a heap buffer was followed by another
\* argument(), dropped unconsumed, and freeze gave the empty buffer
C20_Witness ==
    /\ pc = "frozen"
    /\ discarded
    /\ last_op.op = "drop"
    /\ heap # <<>>
    /\ frozen[1].kind = "Empty"

\* C21 as claimed: the attempt counter an Argument reports equals the number
\* of operating system calls attempted in this negotiation, the one this
\* Argument was handed to included.
C21_TriesCountsAttempts ==
    (argument # <<>> /\ pc \in {"called", "classified"}) =>
        argument[1].tries = calls

\* the smallest multiple of m that is >= x
CeilTo(m, x) == CHOOSE c \in x .. x + m - 1 : c % m = 0

\* next_capacity has been applied to the policy called name
Applied(name) == fn.done /\ fn.gs.name = name

\* C22 as claimed: GrowToNearestNibble returns the smallest multiple of 16
\* that is >= the desired capacity, for every desired capacity in the u32
\* range and every tries.
C22_NearestNibble_AsClaimed ==
    Applied("GrowToNearestNibble") =>
        /\ fn.out = CeilTo(16, fn.desired)
        /\ fn.out % 16 = 0

\* C22: GrowToNearestNibble returns the smallest multiple of 16 that is >= the
\* desired capacity, whatever tries is, when that multiple is in the u32
\* range, and the u32 maximum when it is not.
C22_NearestNibble ==
    Applied("GrowToNearestNibble") =>
        IF CeilTo(16, fn.desired) <= U32_MAX
        THEN /\ fn.out % 16 = 0
             /\ fn.out >= fn.desired
             /\ fn.out - 16 < fn.desired
        ELSE fn.out = U32_MAX

\* C22 happens: a desired capacity that is not a multiple of 16 was rounded up
C22_Witness ==
    /\ Applied("GrowToNearestNibble")
    /\ fn.desired % 16 = 1
    /\ fn.tries = MaxCalls
    /\ fn.out = fn.desired + 15

\* C23 as claimed: GrowToNearestQuarterKibi returns a multiple of 256 that is
\* at least the desired capacity plus ALIGNMENT and less than that plus 256,
\* for every desired capacity in the u32 range.
C23_NearestQuarterKibi_AsClaimed ==
    Applied("GrowToNearestQuarterKibi") =>
        /\ fn.out % 256 = 0
        /\ fn.out >= fn.desired + ALIGNMENT
        /\ fn.out < fn.desired + ALIGNMENT + 256

\* C23: GrowToNearestQuarterKibi returns a multiple of 256 that is at least
\* the desired capacity plus ALIGNMENT and less than that plus 256 when such
\* a multiple is in the u32 range, and the u32 maximum when it is not.
C23_NearestQuarterKibi ==
    Applied("GrowToNearestQuarterKibi") =>
        IF CeilTo(256, fn.desired + ALIGNMENT) <= U32_MAX
        THEN /\ fn.out % 256 = 0
             /\ fn.out >= fn.desired + ALIGNMENT
             /\ fn.out < fn.desired + ALIGNMENT + 256
        ELSE fn.out = U32_MAX

\* C23 happens: a desired capacity that is a multiple of 256 got the next
\* multiple, because of the room for alignment
C23_Witness ==
    /\ Applied("GrowToNearestQuarterKibi")
    /\ fn.desired = 256
    /\ fn.out = 512

\* C24: GrowByDoubleWithNull<FLOOR> returns the larger of FLOOR and twice the
\* smallest multiple of 16 that is >= the desired capacity plus SIZE_OF_WCHAR,
\* clamped to the u32 maximum; unless clamped the result is not below FLOOR
\* and not below twice the desired capacity plus SIZE_OF_WCHAR, and it is
\* never below a FLOOR that is in the u32 range.
C24_DoubleWithNull ==
    Applied("GrowByDoubleWithNull") =>
        LET FLOOR == fn.gs.A.FLOOR
            unclamped == Max(2 * CeilTo(16, fn.desired + SIZE_OF_WCHAR), FLOOR)
        IN  /\ fn.out = Min(unclamped, U32_MAX)
            /\ unclamped <= U32_MAX =>
                  /\ fn.out >= FLOOR
                  /\ fn.out >= 2 * (fn.desired + SIZE_OF_WCHAR)
            /\ FLOOR <= U32_MAX => fn.out >= FLOOR

\* C24 happens: the doubled capacity was below the FLOOR, which was returned
C24_Witness ==
    /\ Applied("GrowByDoubleWithNull")
    /\ fn.gs.A.FLOOR = 64
    /\ 2 * (fn.desired + SIZE_OF_WCHAR) < 64
    /\ fn.out = 64

\* the value a policy computes before the clamp, in unbounded arithmetic
Unclamped(gs, d) ==
    IF gs.name = "GrowToNearestQuarterKibi"
    THEN CeilTo(256, d + ALIGNMENT)
    ELSE Max(Max(CeilTo(16, d + gs.A.EXTRA) * gs.A.SCALE, d), gs.A.FLOOR)

\* C25: for every policy and every desired capacity in the u32 range,
\* next_capacity returns the unclamped value when it is in the u32 range and
\* the u32 maximum otherwise: the arithmetic never wraps.
C25_NeverWraps ==
    fn.done => fn.out = Min(Unclamped(fn.gs, fn.desired), U32_MAX)

\* C25 happens: a desired capacity at the u32 maximum, whose rounded value is
\* beyond the range, yields the u32 maximum under GrowToNearestQuarterKibi
C25_Witness ==
    /\ Applied("GrowToNearestQuarterKibi")
    /\ fn.desired = U32_MAX
    /\ Unclamped(fn.gs, fn.desired) > U32_MAX
    /\ fn.out = U32_MAX

\* the capacity of the buffer that the grow in progress has released
ReleasedCapacity ==
    IF heap = <<>>
    THEN StackBuffer_capacity(initial_buffer)
    ELSE heap[Len(heap)].capacity

\* C26 as claimed: with RvIsSize and GrowByDoubleWithNull, whose FLOOR is not
\* above the current capacity, a Grow caused by a full buffer installs a
\* buffer of double the previous capacity, up to the rounding to 16 bytes and
\* the room for the terminator.
C26_FullBufferDoubles ==
    (/\ Looping("RvIsSize")
     /\ cfg.grow_strategy.name = "GrowByDoubleWithNull"
     /\ cfg.grow_strategy.A.FLOOR <= ReleasedCapacity
     /\ pc = "PendingSwitch"
     /\ LastAttempt.action = "Grow"
     /\ LastAttempt.reported = LastAttempt.offered
     /\ LastAttempt.reported # 0) =>
        /\ adjusted >= Min(2 * ReleasedCapacity, U32_MAX)
        /\ adjusted <= 2 * (ReleasedCapacity + SIZE_OF_WCHAR + 15)

\* the function op of SpecPure has been applied
Converted(op) == fn.done /\ fn.op = op

\* C27: to_os_string returns None exactly when the size read from the
\* FrozenBuffer is 0 or the pointer is None; otherwise it returns the stored
\* elements, without the last one if and only if the last one is 0, every
\* other NUL kept; to_string and winapi_path_buf's finalize give the empty
\* string when nothing or a lone terminator was stored.
C27_ToOsStringTrimsOneNul ==
    Converted("to_os_string") =>
        LET rb == fn.arg.rb
            stored == SubSeq(fn.arg.memory, 1, rb.size)
            o == fn.out.to_os_string
        IN  /\ (o = <<>>) <=> (rb.size = 0 \/ rb.pointer = <<>>)
            /\ o # <<>> =>
                  IF stored[rb.size] = 0
                  THEN o[1] \o <<0>> = stored
                  ELSE o[1] = stored
            /\ (rb.size = 0 \/ stored = <<0>>) =>
                  /\ fn.out.to_string = <<>>
                  /\ fn.out.to_path_buf = <<>>

\* C27 happens: of two NULs stored after an 'a', one was removed
C27_Witness ==
    /\ Converted("to_os_string")
    /\ fn.arg.memory = <<97, 0, 0>>
    /\ fn.arg.rb.size = 3
    /\ fn.out.to_os_string = <<(<<97, 0>>)>>

\* C28: WindowsString::<N>::new(s) succeeds for every s whose UTF-16 encoding
\* has no NUL and every N, and as_wide then points to the UTF-16 encoding of
\* s followed by one 0, in the heap storage exactly when the length of s in
\* bytes plus one is more than N and in the stack storage otherwise.
C28_WindowsStringIsTerminated ==
    (/\ Converted("WindowsString_new")
     /\ \A i \in 1 .. Len(encode_wide(fn.arg.s)) : encode_wide(fn.arg.s)[i] # 0) =>
        /\ fn.out.ws.ok
        /\ fn.out.as_wide = <<encode_wide(fn.arg.s) \o <<0>>>>
        /\ (fn.out.ws.heap # <<>>) <=> (OsStr_len(fn.arg.s) + 1 > fn.arg.N)

\* C28 happens: three 4-byte characters, 6 UTF-16 units, and a stack size of
\* 12, one too small for the 12 bytes and the terminator: the heap was used
C28_Witness ==
    /\ Converted("WindowsString_new")
    /\ OsStr_len(fn.arg.s) = 12
    /\ fn.arg.N = 12
    /\ fn.out.ws.ok
    /\ fn.out.ws.heap # <<>>
    /\ Len(fn.out.as_wide[1]) = 7
    /\ fn.out.as_wide[1][7] = 0

\* C29: for a StackBuffer at any base address, capacity() is CAPACITY minus
\* the distance from the base to the next ALIGNMENT boundary when CAPACITY >=
\* ALIGNMENT and 0 otherwise; write_buffer returns the same capacity; and when
\* the capacity is > 0 the pointer write_buffer returns is a multiple of
\* ALIGNMENT inside the array and pointer + capacity is not past its end.
C29_StackBufferAligned ==
    Converted("StackBuffer") =>
        LET CAPACITY == fn.arg.CAPACITY
            base == fn.arg.base
            gap == CHOOSE k \in 0 .. ALIGNMENT - 1 : (base + k) % ALIGNMENT = 0
            w == fn.out.write_buffer
        IN  /\ fn.out.capacity = IF CAPACITY >= ALIGNMENT THEN CAPACITY - gap ELSE 0
            /\ w.capacity = fn.out.capacity
            /\ fn.out.capacity > 0 =>
                  /\ w.pointer % ALIGNMENT = 0
                  /\ w.pointer >= base
                  /\ w.pointer + w.capacity <= base + CAPACITY

\* C29 happens: an array of ALIGNMENT bytes one byte past a boundary has a
\* capacity of one byte, at its last byte
C29_Witness ==
    /\ Converted("StackBuffer")
    /\ fn.arg.CAPACITY = ALIGNMENT
    /\ fn.arg.base % ALIGNMENT = 1
    /\ fn.out.capacity = 1
    /\ fn.out.write_buffer.pointer = fn.arg.base + ALIGNMENT - 1

C31_GrowAboveCapacityInstalls ==
    [][/\ (/\ argument # <<>>
           /\ last_op.op # "grow"
           /\ last_op'.op = "grow"
           /\ size_to_capacity(cfg.IT, argument[1].size) > BufferStrategy_capacity) =>
              /\ tries' = tries + 1
              /\ adjusted' = next_capacity(cfg.grow_strategy, tries + 1,
                                           size_to_capacity(cfg.IT, argument[1].size))
              /\ pc' = "PendingSwitch"
              /\ active_buffer' = PendingSwitch
              /\ heap' = drop_buffer(heap, active_buffer)
       /\ pc = "PendingSwitch" =>
              /\ tries' = tries
              /\ heap' = Append(heap, [capacity |-> adjusted, final_size |-> 0,
                                       live |-> TRUE, frees |-> 0])
              /\ active_buffer' = [kind |-> "Heap", id |-> Len(heap')]
              /\ BufferStrategy_capacity' = adjusted
              /\ final_size' = 0]_vars

\* C31 happens: a second heap buffer, of a capacity clamped to the u32
\* maximum, is active after two grows
C31_Witness ==
    /\ active_buffer = [kind |-> "Heap", id |-> 2]
    /\ heap[2].capacity = U32_MAX
    /\ heap[2].final_size = 0
    /\ ~heap[1].live
    /\ tries = 2
    /\ last_op.op = "grow"

\* C32: when the policy returns a capacity that is not above the current
\* capacity for a desired capacity that is, grow fails its assertion: no
\* switch of buffers is started and nothing is allocated, the unwinding
\* releases the buffer that was active, and no step follows the failure.
C32_PolicyThatDoesNotGrowAborts ==
    [][/\ (/\ argument # <<>>
           /\ last_op.op # "grow"
           /\ last_op'.op = "grow"
           /\ size_to_capacity(cfg.IT, argument[1].size) > BufferStrategy_capacity
           /\ next_capacity(cfg.grow_strategy, tries + 1,
                            size_to_capacity(cfg.IT, argument[1].size))
                 <= BufferStrategy_capacity) =>
              /\ pc' = "panicked"
              /\ Len(heap') = Len(heap)
              /\ active_buffer' = Dropped
              /\ heap' = drop_buffer(heap, active_buffer)
              /\ \A i \in 1 .. Len(heap') : ~heap'[i].live /\ heap'[i].frees = 1
       /\ pc # "panicked"]_vars

\* C32 happens: GrowCapped, holding a heap buffer of CAP bytes, was asked for
\* more and the grow failed; the heap buffer was released once
C32_Witness ==
    /\ pc = "panicked"
    /\ cfg.grow_strategy.name = "GrowCapped"
    /\ last_op.op = "grow"
    /\ size_to_capacity(cfg.IT, last_op.size) > CAP
    /\ active_buffer = Dropped
    /\ Len(heap) = 1
    /\ heap[1].capacity = CAP
    /\ heap[1].frees = 1

C34_PendingSwitchOnlyInsideGrow ==
    /\ (active_buffer.kind = "PendingSwitch") <=> (pc = "PendingSwitch")
    /\ pc \in {"idle", "argument", "called", "classified", "break"} =>
          \/ active_buffer.kind = "Initial"
          \/ /\ active_buffer.kind = "Heap"
             /\ active_buffer.id \in 1 .. Len(heap)
             /\ heap[active_buffer.id].live

\* C34 happens: a grow went through PendingSwitch twice and has returned with
\* a heap buffer, from which the next Argument was made
C34_Witness ==
    /\ pc = "argument"
    /\ tries = 2
    /\ active_buffer = [kind |-> "Heap", id |-> 2]
    /\ argument[1].pointer = 2

ElementSize(IT) == IF IT = "PWSTR" THEN SIZE_OF_WCHAR ELSE 1

\* the capacity of the buffer a FrozenBuffer exposes
PassiveBuffer_capacity(pb) ==
    CASE pb.kind = "Heap" -> heap[pb.id].capacity
      [] pb.kind = "Initial" -> StackBuffer_capacity(initial_buffer)
      [] pb.kind = "Empty" -> 0

\* C36 as claimed: in every state, a final size above 0, converted to bytes,
\* is at most the capacity of the active buffer, and so the elements that a
\* FrozenBuffer exposes fit in the buffer it exposes.
C36_FinalSizeFitsActiveBuffer ==
    /\ (final_size > 0 /\ active_buffer.kind \in {"Initial", "Heap"}) =>
          size_to_capacity(cfg.IT, final_size) <= BufferStrategy_capacity
    /\ (frozen # <<>> /\ pc = "frozen") =>
          FrozenBuffer_read_buffer(frozen[1]).size * ElementSize(cfg.IT)
             <= PassiveBuffer_capacity(frozen[1])

\* C37: when RvIsSize classifies the call made with a fresh Argument as
\* Commit, the count it puts in the size slot, converted to bytes, is at most
\* the capacity of the active buffer, for sizes in bytes and in WCHARs and
\* for odd capacities; the commit that winapi_generic then applies does not
\* fail and stores that count.
C37_RvIsSizeCommitFits ==
    /\ (/\ cfg.to_result = "RvIsSize"
        /\ pc = "classified"
        /\ result[1].ok
        /\ result[1].action = "Commit") =>
          /\ argument[1].size = rv[1].count
          /\ rv[1].count < argument[1].offered
          /\ argument[1].offered = capacity_to_size(cfg.IT, BufferStrategy_capacity)
          /\ size_to_capacity(cfg.IT, argument[1].size) <= BufferStrategy_capacity
          /\ argument[1].size * ElementSize(cfg.IT) <= BufferStrategy_capacity
    /\ (Looping("RvIsSize") /\ attempts[Len(attempts)].action = "Commit"
                            /\ pc # "classified") =>
          /\ pc # "panicked"
          /\ last_op.op = "commit"
          /\ final_size = attempts[Len(attempts)].reported

\* C37 happens: a buffer of an odd number of bytes, offered in WCHARs, and a
\* Commit of the largest count RvIsSize accepts has been applied
C37_Witness ==
    /\ Looping("RvIsSize")
    /\ cfg.IT = "PWSTR"
    /\ pc = "break"
    /\ last_op.op = "commit"
    /\ BufferStrategy_capacity % 2 = 1
    /\ final_size = capacity_to_size(cfg.IT, BufferStrategy_capacity) - 1
    /\ final_size > 0

\* C38: the built-in policy a negotiation is constructed with returns at
\* least the desired capacity for every tries and every desired capacity in
\* the u32 range; the policy's result in a grow is at least the desired
\* capacity and above the capacity of the buffer released, and no grow ends
\* in the failure of `assert!(adjusted_capacity > current_capacity)`.
C38_BuiltInPolicyNeverFailsGrow ==
    /\ (calls = 0 /\ pc = "idle" /\ last_op.op = "none") =>
          \A t \in 1 .. (MaxCalls + 1), d \in 0 .. U32_MAX :
             next_capacity(cfg.grow_strategy, t, d) >= d
    /\ pc = "PendingSwitch" =>
          /\ adjusted >= size_to_capacity(cfg.IT, last_op.size)
          /\ adjusted > ReleasedCapacity
    /\ last_op.op = "grow" => pc # "panicked"

\* C38 happens: a heap buffer is active and a grow is under way for the
\* largest desired capacity, which the policy returned as it was
C38_Witness ==
    /\ pc = "PendingSwitch"
    /\ Len(heap) = 1
    /\ size_to_capacity(cfg.IT, last_op.size) = U32_MAX
    /\ adjusted = U32_MAX

\* the stored size is below the largest size a buffer can be offered as
BelowClamp == fn.N < capacity_to_size(cfg.IT, U32_MAX)

\* the loop has ended with a Commit of the fn.N elements stored
StoredCommitted ==
    /\ attempts # <<>>
    /\ attempts[Len(attempts)].action = "Commit"
    /\ last_op.op = "commit"
    /\ final_size = fn.N

\* the calls explored are used up and the size offered was still not above fn.N
StoredOutOfCalls ==
    /\ calls = MaxCalls
    /\ pc = "idle"
    /\ attempts[Len(attempts)].action = "Grow"
    /\ attempts[Len(attempts)].offered <= fn.N

\* the turns of the loop so far: a Grow for every size offered that is not
\* above fn.N, a Commit of fn.N for one that is, and, below the clamp, every
\* size offered larger than all offered before it
StoredProgress ==
    /\ \A i \in 1 .. Len(attempts) :
          IF attempts[i].offered <= fn.N
          THEN attempts[i].action = "Grow" /\ attempts[i].reported = attempts[i].offered
          ELSE attempts[i].action = "Commit" /\ attempts[i].reported = fn.N
    /\ BelowClamp =>
          \A i \in 1 .. Len(attempts) : \A j \in 1 .. (i - 1) :
             attempts[j].offered < attempts[i].offered
    /\ pc # "panicked"

\* C39: with RvIsSize, GrowByDoubleWithNull and a call that fills the buffer
\* and fails with ERROR_INSUFFICIENT_BUFFER while it is offered no more than N
\* elements and stores N once it is offered more, every Grow is followed by a
\* strictly larger offer, no size that failed is offered again, and the loop
\* ends with a Commit of N, for N below the clamp (or the calls explored are
\* used up with the offer still growing).
C39_StoredSizeTerminates ==
    /\ []StoredProgress
    /\ <>(BelowClamp => (StoredCommitted \/ StoredOutOfCalls))

\* C39 happens: two Grows, each followed by a larger offer, then the Commit
\* of the N elements at the third call
C39_Witness ==
    /\ BelowClamp
    /\ StoredCommitted
    /\ Len(attempts) = 3
    /\ attempts[1].action = "Grow"
    /\ attempts[2].action = "Grow"
    /\ attempts[1].offered < attempts[2].offered
    /\ attempts[2].offered <= fn.N
    /\ pc = "break"

\* C40: WindowsString::new never needs more UTF-16 units than the string has
\* bytes.  When the length in bytes plus the terminator fits in
\* STACK_BUFFER_SIZE, the loop over the stack array ends within the array,
\* with the terminator or at an interior NUL, and no heap buffer is made.
\* Otherwise the stack array is not written, and the first turn of the heap
\* loop, with a capacity of the length in bytes plus one, ends within that
\* capacity and its elements are the heap buffer: the capacity is never
\* doubled.
C40_WindowsStringStorageBounds ==
    Converted("WindowsString_new") =>
        LET s == fn.arg.s
            N == fn.arg.N
            bytes == OsStr_len(s)
            wide == encode_wide(s)
            ws == fn.out.ws
        IN  /\ Len(wide) <= bytes
            /\ IF bytes + 1 <= N
               THEN LET r == store(wide, N, 0, <<>>)
                    IN  /\ r.err \/ r.finished
                        /\ Len(r.written) <= N
                        /\ ws.stack = r.written
                        /\ ws.heap = <<>>
                        /\ ws.ok = r.finished
               ELSE LET r == store(wide, bytes + 1, 0, <<>>)
                    IN  /\ r.err \/ r.finished
                        /\ Len(r.written) <= bytes + 1
                        /\ ws.stack = <<>>
                        /\ ws.heap = IF r.finished THEN <<r.written>> ELSE <<>>
                        /\ ws.ok = r.finished

\* C40 happens: a string whose bytes and terminator fill the stack array
\* exactly was stored there, the terminator in the last element
C40_Witness ==
    /\ Converted("WindowsString_new")
    /\ OsStr_len(fn.arg.s) = MaxLen
    /\ fn.arg.N = MaxLen + 1
    /\ fn.out.ws.ok
    /\ fn.out.ws.heap = <<>>
    /\ Len(fn.out.ws.stack) = fn.arg.N
    /\ fn.out.ws.stack[fn.arg.N] = 0

=============================================================================
